---- MODULE Spec2Model ----
(***************************************************************************)
(* Credit-risk scoring and fusion engine: rule score, network trust and    *)
(* behavioural stability signals, their capped composites, fusion with the *)
(* ML score, risk band.                                                    *)
(*                                                                         *)
(* Number representation.  Python floats are modelled as exact rationals   *)
(* on fixed grids (scaled integers); IEEE-754 rounding error is not        *)
(* modelled.                                                               *)
(*   - ratio-like inputs (ratios, correlations, cv, indices, micro saves)  *)
(*     are in hundredths: 80 stands for 0.80;                              *)
(*   - location_risk_score is in thousandths: 700 stands for 0.700;        *)
(*   - the classifier's probability is in ten-thousandths;                 *)
(*   - a reported score (round(x, 3)) is in thousandths: 500 is 0.5;       *)
(*   - counts, months, amounts and credit scores are plain integers.       *)
(* An Optional value is <<>> for None and <<v>> for a present v.           *)
(***************************************************************************)
EXTENDS Integers, Sequences, FiniteSets, TLC

VARIABLES req, prob, resp, log, samples, table, now

vars == <<req, prob, resp, log, samples, table, now>>

-----------------------------------------------------------------------------
(* Python built-ins *)

None == <<>>

Some(v) == <<v>>

IsNone(x) == x = <<>>

\* `x if x is not None else d`
OrDefault(x, d) == IF IsNone(x) THEN d ELSE x[1]

Min(a, b) == IF a <= b THEN a ELSE b

Max(a, b) == IF a >= b THEN a ELSE b

Abs(a) == IF a >= 0 THEN a ELSE -a

\* int(n/d) for d > 0: truncation toward zero
IntTrunc(n, d) == IF n >= 0 THEN n \div d ELSE -((-n) \div d)

\* round(n/d) for d > 0: nearest integer, ties to even
Round(n, d) ==
    LET q == n \div d
        r == n % d
    IN  IF 2 * r < d THEN q
        ELSE IF 2 * r > d THEN q + 1
        ELSE IF q % 2 = 0 THEN q ELSE q + 1

\* the scaled deviation rounded to the nearest integer before the cap
Impact_rounded(n, d, cap) == Max(-cap, Min(cap, Round((2 * n - d) * cap, d)))

\* the truncated deviation returned without the cap
Impact_uncapped(n, d, cap) == IntTrunc((2 * n - d) * cap, d)

\* the scaled deviation rounded away from zero
Impact_away(n, d, cap) ==
    LET x == (2 * n - d) * cap
        q == IntTrunc(x, d)
    IN  Max(-cap, Min(cap, IF q * d = x THEN q ELSE IF x > 0 THEN q + 1 ELSE q - 1))

\* The capped point impact of a score n/d:
\* impact = int((score - 0.5) * 2 * MAX_IMPACT); max(-MAX, min(MAX, impact))
Impact(n, d, cap) == Max(-cap, Min(cap, IntTrunc((2 * n - d) * cap, d)))

\* round(score, 3) of a score n/d, in thousandths
Score3(n, d) == Round(1000 * n, d)

\* score >= t/100 for a score n/d
AtLeast(n, d, t) == 100 * n >= t * d

\* score > t/100 for a score n/d
Above(n, d, t) == 100 * n > t * d

SignalResult(score, available, category, impact) ==
    [score |-> score, available |-> available, category |-> category,
     impact_adjustment |-> impact]

\* an unavailable result that carries a penalty
Unavailable_penalised == SignalResult(500, FALSE, "Unknown", -10)

\* score=0.5, available=False, category "Unknown", impact_adjustment=0
Unavailable == SignalResult(500, FALSE, "Unknown", 0)

-----------------------------------------------------------------------------
(* network_score.py *)

CTC_MAX_IMPACT == 100

ADDRESS_MAX_IMPACT == 50

NETWORK_CAP == 120

\* a missing field counted as 0 instead of its neutral default
CtcNumerator_zero_defaults(avg_contact_credit_score, low_risk_contact_ratio, high_risk_contact_ratio, network_stability_ratio) ==
    4 * (Max(300, Min(900, OrDefault(avg_contact_credit_score, 0))) - 300)
    + 18 * Max(0, Min(100, OrDefault(low_risk_contact_ratio, 0)))
    + 12 * Max(0, Min(100, OrDefault(network_stability_ratio, 0)))
    + 6 * (100 - Max(0, Min(100, OrDefault(high_risk_contact_ratio, 0))))

\* the credit score weighted as it comes, not normalised from 300-900, and the
\* sum not clamped
CtcNumerator_unnormalised(avg_contact_credit_score, low_risk_contact_ratio, high_risk_contact_ratio, network_stability_ratio) ==
    4 * OrDefault(avg_contact_credit_score, 600)
    + 18 * OrDefault(low_risk_contact_ratio, 50)
    + 12 * OrDefault(network_stability_ratio, 50)
    + 6 * (100 - OrDefault(high_risk_contact_ratio, 20))

\* a higher contact credit score counted against the applicant
CtcNumerator_inverted(avg_contact_credit_score, low_risk_contact_ratio, high_risk_contact_ratio, network_stability_ratio) ==
    4 * (900 - Max(300, Min(900, OrDefault(avg_contact_credit_score, 600))))
    + 18 * Max(0, Min(100, OrDefault(low_risk_contact_ratio, 50)))
    + 12 * Max(0, Min(100, OrDefault(network_stability_ratio, 50)))
    + 6 * (100 - Max(0, Min(100, OrDefault(high_risk_contact_ratio, 20))))

\* ctc_score = 0.4*(credit-300)/600 + 0.3*low + 0.2*stability + 0.1*(1-high),
\* as a numerator over 6000
CtcNumerator(avg_contact_credit_score, low_risk_contact_ratio, high_risk_contact_ratio, network_stability_ratio) ==
    LET avg_credit == Max(300, Min(900, OrDefault(avg_contact_credit_score, 600)))
        low_risk   == Max(0, Min(100, OrDefault(low_risk_contact_ratio, 50)))
        high_risk  == Max(0, Min(100, OrDefault(high_risk_contact_ratio, 20)))
        stability  == Max(0, Min(100, OrDefault(network_stability_ratio, 50)))
        ctc_score  == 4 * (avg_credit - 300) + 18 * low_risk + 12 * stability
                      + 6 * (100 - high_risk)
    IN  Max(0, Min(6000, ctc_score))

\* the score computed from the defaults even when no CTC field is supplied
compute_ctc_always_scored(avg_contact_credit_score, low_risk_contact_ratio, high_risk_contact_ratio, network_stability_ratio) ==
    LET n == CtcNumerator(avg_contact_credit_score, low_risk_contact_ratio,
                          high_risk_contact_ratio, network_stability_ratio)
    IN  SignalResult(Score3(n, 6000), TRUE, "CTC", Impact(n, 6000, CTC_MAX_IMPACT))

compute_ctc(avg_contact_credit_score, low_risk_contact_ratio, high_risk_contact_ratio, network_stability_ratio) ==
    IF /\ IsNone(avg_contact_credit_score)
       /\ IsNone(low_risk_contact_ratio)
       /\ IsNone(high_risk_contact_ratio)
       /\ IsNone(network_stability_ratio)
    THEN Unavailable
    ELSE LET n == CtcNumerator(avg_contact_credit_score, low_risk_contact_ratio,
                               high_risk_contact_ratio, network_stability_ratio)
         IN  SignalResult(Score3(n, 6000), TRUE, "CTC",
                          Impact(n, 6000, CTC_MAX_IMPACT))

\* a missing address field counted as 0 instead of 1 change or 12 months
compute_address_stability_zero_defaults(address_change_count_12m, current_address_tenure_months) ==
    IF IsNone(address_change_count_12m) /\ IsNone(current_address_tenure_months)
    THEN Unavailable
    ELSE LET changes  == Max(0, Min(10, OrDefault(address_change_count_12m, 0)))
             tenure   == Max(0, Min(240, OrDefault(current_address_tenure_months, 0)))
             n        == Max(0, Min(240, 6 * Min(24, tenure) + 24 * (4 - Min(4, changes))))
             category == IF tenure >= 18 /\ changes <= 1 THEN "High"
                         ELSE IF tenure >= 6 \/ changes <= 2 THEN "Medium"
                         ELSE "Low"
         IN  SignalResult(Score3(n, 240), TRUE, category,
                          Impact(n, 240, ADDRESS_MAX_IMPACT))

\* ass_score = 0.6*min(1, tenure/24) + 0.4*(1 - min(1, changes/4)),
\* as a numerator over 240
compute_address_stability(address_change_count_12m, current_address_tenure_months) ==
    IF IsNone(address_change_count_12m) /\ IsNone(current_address_tenure_months)
    THEN Unavailable
    ELSE LET changes  == Max(0, Min(10, OrDefault(address_change_count_12m, 1)))
             tenure   == Max(0, Min(240, OrDefault(current_address_tenure_months, 12)))
             n        == Max(0, Min(240, 6 * Min(24, tenure) + 24 * (4 - Min(4, changes))))
             category == IF tenure >= 18 /\ changes <= 1 THEN "High"
                         ELSE IF tenure >= 6 \/ changes <= 2 THEN "Medium"
                         ELSE "Low"
         IN  SignalResult(Score3(n, 240), TRUE, category,
                          Impact(n, 240, ADDRESS_MAX_IMPACT))

\* the two impacts summed without the cap
NetworkTotal_unclamped(ctc_impact, address_impact) == ctc_impact + address_impact

\* total_adjustment = max(-120, min(120, ctc + address))
NetworkTotal(ctc_impact, address_impact) ==
    Max(-NETWORK_CAP, Min(NETWORK_CAP, ctc_impact + address_impact))

\* The dictionary compute_network_adjustments returns for its two results
NetworkAdjustments(ctc, address) ==
    [ctc |-> ctc, address_stability |-> address,
     total_adjustment |->
         NetworkTotal(ctc.impact_adjustment, address.impact_adjustment)]

compute_network_adjustments(r) ==
    NetworkAdjustments(
        compute_ctc(r.avg_contact_credit_score, r.low_risk_contact_ratio,
                    r.high_risk_contact_ratio, r.network_stability_ratio),
        compute_address_stability(r.address_change_count_12m,
                                  r.current_address_tenure_months))

-----------------------------------------------------------------------------
(* stability_scores.py *)

INCOME_MAX_IMPACT == 70

SAVINGS_MAX_IMPACT == 50

DEVICE_MAX_IMPACT == 40

EXPENSE_MAX_IMPACT == 40

UTILITY_MAX_IMPACT == 35

MERCHANT_MAX_IMPACT == 30

REPAYMENT_MAX_IMPACT == 50

GEO_MAX_IMPACT == 40

MAX_COMPOSITE_IMPACT == 150

\* A three-band label: >= hi/100, >= lo/100, otherwise
Band3(n, d, hi, lo, a, b, c) ==
    IF AtLeast(n, d, hi) THEN a ELSE IF AtLeast(n, d, lo) THEN b ELSE c

\* rhythm_score = (0.6*(1 - min(1, cv/0.5)) + 0.4*min(1, freq/12)) * seasonal,
\* clamped to [0,1], as a numerator over 300000
compute_income_rhythm(income_coefficient_of_variation, seasonal_adjustment_factor, income_frequency_months) ==
    IF IsNone(income_coefficient_of_variation) /\ IsNone(seasonal_adjustment_factor)
    THEN Unavailable
    ELSE LET cv       == Max(0, Min(200, OrDefault(income_coefficient_of_variation, 30)))
             seasonal == OrDefault(seasonal_adjustment_factor, 100)
             freq     == OrDefault(income_frequency_months, 12)
             n        == Max(0, Min(300000,
                             (36 * (50 - Min(50, cv)) + 100 * Min(12, freq)) * seasonal))
         IN  SignalResult(Score3(n, 300000), TRUE,
                          Band3(n, 300000, 70, 40, "Stable", "Variable", "Irregular"),
                          Impact(n, 300000, INCOME_MAX_IMPACT))

\* the escrow term 0.1 * escrow_bonus + escrow_bonus, 0.11 in all
compute_savings_cadence_bonus_weighted(micro_saves_per_month, savings_persistence_months, has_escrow_commitment) ==
    IF IsNone(micro_saves_per_month) /\ IsNone(savings_persistence_months)
    THEN Unavailable
    ELSE LET saves        == OrDefault(micro_saves_per_month, 0)
             persistence  == OrDefault(savings_persistence_months, 0)
             escrow       == OrDefault(has_escrow_commitment, FALSE)
             escrow_bonus == IF escrow THEN 240 ELSE 0
             n            == Min(2400, 3 * Min(400, saves) + 80 * Min(12, persistence)
                                       + (IF escrow THEN 24 ELSE 0) + escrow_bonus)
             category     == IF AtLeast(n, 2400, 70) THEN "Strong"
                             ELSE IF AtLeast(n, 2400, 40) THEN "Moderate"
                             ELSE IF Above(n, 2400, 10) THEN "Weak"
                             ELSE "None"
         IN  SignalResult(Score3(n, 2400), TRUE, category,
                          Impact(n, 2400, SAVINGS_MAX_IMPACT))

\* savings_score = min(1, 0.5*min(1, saves/4) + 0.4*min(1, persistence/12)
\*                        + 0.1*(1 if escrow else 0) + escrow_bonus),
\* escrow_bonus = 0.1 if escrow else 0, as a numerator over 2400
compute_savings_cadence(micro_saves_per_month, savings_persistence_months, has_escrow_commitment) ==
    IF IsNone(micro_saves_per_month) /\ IsNone(savings_persistence_months)
    THEN Unavailable
    ELSE LET saves        == OrDefault(micro_saves_per_month, 0)
             persistence  == OrDefault(savings_persistence_months, 0)
             escrow       == OrDefault(has_escrow_commitment, FALSE)
             escrow_bonus == IF escrow THEN 240 ELSE 0
             savings      == 3 * Min(400, saves) + 80 * Min(12, persistence)
                             + (IF escrow THEN 240 ELSE 0)
             n            == Min(2400, savings + escrow_bonus)
             category     == IF AtLeast(n, 2400, 70) THEN "Strong"
                             ELSE IF AtLeast(n, 2400, 40) THEN "Moderate"
                             ELSE IF Above(n, 2400, 10) THEN "Weak"
                             ELSE "None"
         IN  SignalResult(Score3(n, 2400), TRUE, category,
                          Impact(n, 2400, SAVINGS_MAX_IMPACT))

\* device_score = 0.6*min(1, tenure/24) + 0.4*(1 - min(1, (os_changes+reinstalls)/6)),
\* as a numerator over 240
compute_device_persistence(device_tenure_months, os_change_count_12m, app_reinstall_count) ==
    IF IsNone(device_tenure_months) /\ IsNone(os_change_count_12m)
    THEN Unavailable
    ELSE LET tenure     == OrDefault(device_tenure_months, 6)
             os_changes == OrDefault(os_change_count_12m, 1)
             reinstalls == OrDefault(app_reinstall_count, 0)
             n          == 6 * Min(24, tenure) + 16 * (6 - Min(6, os_changes + reinstalls))
         IN  SignalResult(Score3(n, 240), TRUE,
                          Band3(n, 240, 70, 40, "High", "Medium", "Low"),
                          Impact(n, 240, DEVICE_MAX_IMPACT))

\* elasticity_score = 0.6*(1 - min(1, volatility))
\*                    + 0.4*max(0, min(1, 1 - abs(correlation - 0.6)*2)),
\* as a numerator over 1000
compute_expense_elasticity(expense_income_correlation, expense_volatility) ==
    IF IsNone(expense_income_correlation) /\ IsNone(expense_volatility)
    THEN Unavailable
    ELSE LET correlation       == OrDefault(expense_income_correlation, 50)
             volatility        == OrDefault(expense_volatility, 30)
             volatility_score  == 100 - Min(100, volatility)
             correlation_score == Max(0, Min(100, 100 - 2 * Abs(correlation - 60)))
             n                 == 6 * volatility_score + 4 * correlation_score
         IN  SignalResult(Score3(n, 1000), TRUE,
                          Band3(n, 1000, 70, 40, "Controlled", "Flexible", "Volatile"),
                          Impact(n, 1000, EXPENSE_MAX_IMPACT))

\* utility_score = 0.5*min(1, ontime) + 0.3*(1 - min(1, variance))
\*                 + 0.2*min(1, months/24), as a numerator over 6000
compute_utility_stability(utility_payment_ontime_ratio, utility_payment_variance, utility_months_active) ==
    IF IsNone(utility_payment_ontime_ratio) /\ IsNone(utility_payment_variance)
    THEN Unavailable
    ELSE LET ontime   == OrDefault(utility_payment_ontime_ratio, 80)
             variance == OrDefault(utility_payment_variance, 20)
             months   == OrDefault(utility_months_active, 12)
             n        == 30 * Min(100, ontime) + 18 * (100 - Min(100, variance))
                         + 50 * Min(24, months)
         IN  SignalResult(Score3(n, 6000), TRUE,
                          Band3(n, 6000, 80, 50, "Consistent", "Variable", "Irregular"),
                          Impact(n, 6000, UTILITY_MAX_IMPACT))

\* loyalty_score = 0.4*min(1, repeat) + 0.35*(1 - min(1, refunds*10))
\*                 + 0.25*(1 - min(1, disputes*20)), as a numerator over 10000
compute_merchant_loyalty(repeat_merchant_ratio, refund_ratio, dispute_frequency) ==
    IF IsNone(repeat_merchant_ratio) /\ IsNone(refund_ratio)
    THEN Unavailable
    ELSE LET repeat   == OrDefault(repeat_merchant_ratio, 50)
             refunds  == OrDefault(refund_ratio, 5)
             disputes == OrDefault(dispute_frequency, 1)
             n        == 40 * Min(100, repeat) + 35 * (100 - Min(100, refunds * 10))
                         + 25 * (100 - Min(100, disputes * 20))
         IN  SignalResult(Score3(n, 10000), TRUE,
                          Band3(n, 10000, 75, 50, "Premium", "Standard", "Low"),
                          Impact(n, 10000, MERCHANT_MAX_IMPACT))

\* velocity_score = early*1.0 + ontime*0.7 + late*0.2 after dividing the three
\* by their total when total > 0, as a numerator n over d
compute_repayment_velocity(early_payment_ratio, ontime_payment_ratio, late_payment_ratio) ==
    IF IsNone(early_payment_ratio) /\ IsNone(ontime_payment_ratio)
    THEN Unavailable
    ELSE LET early  == OrDefault(early_payment_ratio, 20)
             ontime == OrDefault(ontime_payment_ratio, 70)
             late   == OrDefault(late_payment_ratio, 10)
             total  == early + ontime + late
             \* the ratios are x/total after normalising, x/100 otherwise
             unit   == IF total > 0 THEN total ELSE 100
             n      == 10 * early + 7 * ontime + 2 * late
             d      == 10 * unit
             category == IF 100 * early >= 40 * unit THEN "Early Payer"
                         ELSE IF 100 * ontime >= 70 * unit THEN "On-Time"
                         ELSE "Late Tendency"
         IN  SignalResult(Score3(n, d), TRUE, category,
                          Impact(n, d, REPAYMENT_MAX_IMPACT))

\* resilience_score = 0.4*(1 - abs(correlation)) + 0.3*local_index + 0.3*diversity,
\* as a numerator over 1000
compute_geo_resilience(local_economic_index, income_local_correlation, employment_diversity_score) ==
    IF IsNone(local_economic_index) /\ IsNone(income_local_correlation)
    THEN Unavailable
    ELSE LET local_index == OrDefault(local_economic_index, 50)
             correlation == OrDefault(income_local_correlation, 50)
             diversity   == OrDefault(employment_diversity_score, 50)
             n           == 4 * (100 - Abs(correlation)) + 3 * local_index + 3 * diversity
         IN  SignalResult(Score3(n, 1000), TRUE,
                          Band3(n, 1000, 70, 40, "High", "Medium", "Low"),
                          Impact(n, 1000, GEO_MAX_IMPACT))

SignalNames ==
    {"income_rhythm", "savings_cadence", "device_persistence", "expense_elasticity",
     "utility_stability", "merchant_loyalty", "repayment_velocity", "geo_resilience"}

\* every signal weighted alike
weights_equal == [k \in SignalNames |-> 10]

\* weights, in hundredths
weights ==
    [k \in SignalNames |->
        CASE k = "income_rhythm"      -> 20
          [] k = "repayment_velocity" -> 15
          [] k = "geo_resilience"     -> 15
          [] OTHER                    -> 10]

RECURSIVE Sum(_, _)
\* sum(f[k] for k in S)
Sum(f, S) ==
    IF S = {} THEN 0
    ELSE LET k == CHOOSE x \in S : TRUE IN f[k] + Sum(f, S \ {k})

\* the summed impacts returned without the cap
CompositeTotal_unclamped(total_adjustment) == total_adjustment

\* total_adjustment = max(-MAX_COMPOSITE_IMPACT, min(MAX_COMPOSITE_IMPACT, total))
CompositeTotal(total_adjustment) ==
    Max(-MAX_COMPOSITE_IMPACT, Min(MAX_COMPOSITE_IMPACT, total_adjustment))

\* signals: [SignalNames -> Optional result]
compute_stability_composite(signals) ==
    LET available_signals ==
            {k \in SignalNames : ~IsNone(signals[k]) /\ signals[k][1].available}
        total_weight   == Sum(weights, available_signals)
        weighted       == Sum([k \in available_signals |->
                                   weights[k] * signals[k][1].score],
                              available_signals)
        weighted_score == IF total_weight > 0 THEN Round(weighted, total_weight)
                          ELSE 500
        total_adjustment ==
            Sum([k \in available_signals |-> signals[k][1].impact_adjustment],
                available_signals)
    IN  IF available_signals = {}
        THEN [composite_score |-> 500, available_count |-> 0,
              total_adjustment |-> 0, signal_details |-> <<>>]
        ELSE [composite_score |-> weighted_score,
              available_count |-> Cardinality(available_signals),
              total_adjustment |-> CompositeTotal(total_adjustment),
              signal_details |->
                  [k \in available_signals |->
                      [score |-> signals[k][1].score,
                       impact |-> signals[k][1].impact_adjustment]]]

-----------------------------------------------------------------------------
(* rule_engine.py *)

SCORE_CAP == 1000

\* Transaction volume risk
VolumeRisk(transaction_count_30d) ==
    IF transaction_count_30d >= 100 THEN 300
    ELSE IF transaction_count_30d >= 50 THEN 200
    ELSE IF transaction_count_30d >= 20 THEN 120
    ELSE 40

\* Avg transaction amount
AmountRisk(avg_transaction_amount) ==
    IF avg_transaction_amount >= 1000 THEN 250
    ELSE IF avg_transaction_amount >= 200 THEN 150
    ELSE 60

\* the location points rounded to nearest instead of truncated
LocationRisk_rounded(location_risk_score) == Round(location_risk_score * 200, 1000)

\* int(req.location_risk_score * 200)
LocationRisk(location_risk_score) == IntTrunc(location_risk_score * 200, 1000)

\* fewer points for more device changes
ChurnRisk_decreasing(device_change_frequency) ==
    200 - Min(device_change_frequency * 40, 200)

\* min(req.device_change_frequency * 40, 200)
ChurnRisk(device_change_frequency) == Min(device_change_frequency * 40, 200)

\* Previous indicators
FraudRisk(previous_fraud_flag, chargeback_count) ==
    (IF previous_fraud_flag # 0 THEN 200 ELSE 0) + Min(chargeback_count * 50, 200)

\* the sum returned without the cap
CapScore_uncapped(score) == score

\* return min(score, 1000)
CapScore(score) == Min(score, SCORE_CAP)

\* sentinelfraud-credit-engine/app/scoring/rule_engine.py
rule_score(r) ==
    CapScore(VolumeRisk(r.transaction_count_30d) + AmountRisk(r.avg_transaction_amount)
             + LocationRisk(r.location_risk_score)
             + ChurnRisk(r.device_change_frequency)
             + FraudRisk(r.previous_fraud_flag, r.chargeback_count))

\* backend/credit/rule_engine.py: the same statements
backend_rule_score(r) ==
    LET volume   == IF r.transaction_count_30d >= 100 THEN 300
                    ELSE IF r.transaction_count_30d >= 50 THEN 200
                    ELSE IF r.transaction_count_30d >= 20 THEN 120
                    ELSE 40
        amount   == IF r.avg_transaction_amount >= 1000 THEN 250
                    ELSE IF r.avg_transaction_amount >= 200 THEN 150
                    ELSE 60
        location == IntTrunc(r.location_risk_score * 200, 1000)
        churn    == Min(r.device_change_frequency * 40, 200)
        fraud    == IF r.previous_fraud_flag # 0 THEN 200 ELSE 0
        charge   == Min(r.chargeback_count * 50, 200)
    IN  Min(volume + amount + location + churn + fraud + charge, 1000)

\* the adjustment applied without the bounds
AdjustedScore_unclamped(base_score, total_adjustment) == base_score - total_adjustment

\* the network total added to the risk score instead of subtracted
AdjustedScore_added(base_score, total_adjustment) ==
    Max(0, Min(1000, base_score + total_adjustment))

\* adjusted_score = max(0, min(1000, base_score - total_adjustment))
AdjustedScore(base_score, total_adjustment) ==
    Max(0, Min(SCORE_CAP, base_score - total_adjustment))

\* The dictionary enhanced_rule_score returns, from base_score = rule_score(req)
\* and network_result = compute_network_adjustments(...)
EnhancedResult(base_score, network_result) ==
    LET ctc     == network_result.ctc
        address == network_result.address_stability
    IN  [base_score |-> base_score,
         ctc_adjustment |-> IF ctc.available THEN -ctc.impact_adjustment ELSE 0,
         address_adjustment |->
             IF address.available THEN -address.impact_adjustment ELSE 0,
         total_adjustment |-> -network_result.total_adjustment,
         adjusted_score |-> AdjustedScore(base_score, network_result.total_adjustment),
         ctc_details |-> [score |-> ctc.score, available |-> ctc.available],
         address_details |-> [score |-> address.score, available |-> address.available,
                              tenure_category |-> address.category]]

enhanced_rule_score(r) == EnhancedResult(rule_score(r), compute_network_adjustments(r))

\* The eight evaluator calls of fully_enhanced_rule_score
StabilitySignals(r) ==
    [k \in SignalNames |->
        CASE k = "income_rhythm" ->
                compute_income_rhythm(r.income_coefficient_of_variation,
                    r.seasonal_adjustment_factor, r.income_frequency_months)
          [] k = "savings_cadence" ->
                compute_savings_cadence(r.micro_saves_per_month,
                    r.savings_persistence_months, r.has_escrow_commitment)
          [] k = "device_persistence" ->
                compute_device_persistence(r.device_tenure_months,
                    r.os_change_count_12m, r.app_reinstall_count)
          [] k = "expense_elasticity" ->
                compute_expense_elasticity(r.expense_income_correlation,
                    r.expense_volatility)
          [] k = "utility_stability" ->
                compute_utility_stability(r.utility_payment_ontime_ratio,
                    r.utility_payment_variance, r.utility_months_active)
          [] k = "merchant_loyalty" ->
                compute_merchant_loyalty(r.repeat_merchant_ratio, r.refund_ratio,
                    r.dispute_frequency)
          [] k = "repayment_velocity" ->
                compute_repayment_velocity(r.early_payment_ratio,
                    r.ontime_payment_ratio, r.late_payment_ratio)
          [] k = "geo_resilience" ->
                compute_geo_resilience(r.local_economic_index,
                    r.income_local_correlation, r.employment_diversity_score)]

\* final_score = max(0, min(1000, base_with_network + stability_adjustment))
FinalEnhancedScore(base_with_network, stability_adjustment) ==
    Max(0, Min(SCORE_CAP, base_with_network + stability_adjustment))

\* The dictionary fully_enhanced_rule_score returns, from enhanced =
\* enhanced_rule_score(req), the eight signals and their stability_composite
FullResult(enhanced, signals, stability_composite) ==
    LET base_with_network    == enhanced.adjusted_score
        stability_adjustment == -stability_composite.total_adjustment
    IN  [base_rule_score |-> enhanced.base_score,
         network_adjusted_score |-> base_with_network,
         final_enhanced_score |->
             FinalEnhancedScore(base_with_network, stability_adjustment),
         network_community |->
             [ctc_score |-> enhanced.ctc_details.score,
              ctc_available |-> enhanced.ctc_details.available,
              ctc_adjustment |-> enhanced.ctc_adjustment,
              address_score |-> enhanced.address_details.score,
              address_available |-> enhanced.address_details.available,
              address_adjustment |-> enhanced.address_adjustment,
              total_network_adjustment |-> enhanced.total_adjustment],
         stability_composite |->
             [composite_score |-> stability_composite.composite_score,
              signals_available |-> stability_composite.available_count,
              total_adjustment |-> stability_adjustment,
              signal_details |-> stability_composite.signal_details],
         signal_breakdown |->
             [k \in SignalNames |->
                 [score |-> signals[k].score, available |-> signals[k].available,
                  category |-> signals[k].category]]]

\* The composite of the eight evaluated signals, every one of them passed
CompositeOf(signals) ==
    compute_stability_composite([k \in SignalNames |-> Some(signals[k])])

\* Steps 1 to 5 of fully_enhanced_rule_score on the evaluated signals
FullyEnhanced(enhanced, signals) == FullResult(enhanced, signals, CompositeOf(signals))

fully_enhanced_rule_score(r) == FullyEnhanced(enhanced_rule_score(r), StabilitySignals(r))

-----------------------------------------------------------------------------
(* ml_model.py, reason_codes.py *)

\* the product rounded to the nearest integer
ml_score_rounded(p) == [prob |-> p, score |-> Round(p * 1000, 10000)]

\* score = int(prob_high * 1000); p is prob_high in ten-thousandths
ml_score(p) == [prob |-> p, score |-> IntTrunc(p * 1000, 10000)]

\* backend/credit/ml_model.py
backend_ml_score(p) == [prob |-> p, score |-> IntTrunc(p * 1000, 10000)]

\* reasons.append(code) when cond holds
Append_if(reasons, cond, code) == IF cond THEN Append(reasons, code) ELSE reasons

\* sentinelfraud-credit-engine/app/scoring/reason_codes.py
generate_reason_codes(r) ==
    LET r1 == Append_if(<<>>, r.previous_fraud_flag # 0, "R10")
        r2 == Append_if(r1, r.chargeback_count >= 1, "R11")
        r3 == Append_if(r2, r.location_risk_score >= 700, "R07")
    IN  Append_if(r3, r.transaction_count_30d >= 100 /\ r.avg_transaction_amount < 50,
                  "R12")

\* backend/credit/reason_codes.py
backend_generate_reason_codes(r) ==
    LET r1 == Append_if(<<>>, r.previous_fraud_flag # 0, "R10")
        r2 == Append_if(r1, r.chargeback_count >= 1, "R11")
        r3 == Append_if(r2, r.location_risk_score >= 700, "R07")
        r4 == Append_if(r3, r.transaction_count_30d >= 100
                            /\ r.avg_transaction_amount < 50, "R12")
        r5 == Append_if(r4, r.device_change_frequency >= 4, "R05")
    IN  Append_if(r5, r.account_age_months < 6, "R03")

-----------------------------------------------------------------------------
(* api/credit.py, backend/routers/credit.py *)

\* the fusion weights exchanged
FinalScore_swapped(m_score, r_score) == IntTrunc(4 * m_score + 6 * r_score, 10)

\* final_score = int(0.6 * m_score + 0.4 * r_score)
FinalScore(m_score, r_score) == IntTrunc(6 * m_score + 4 * r_score, 10)

\* strict comparisons at the band thresholds
RiskBand_strict(final_score) ==
    IF final_score > 700 THEN "High"
    ELSE IF final_score > 350 THEN "Moderate"
    ELSE "Low"

RiskBand(final_score) ==
    IF final_score >= 700 THEN "High"
    ELSE IF final_score >= 350 THEN "Moderate"
    ELSE "Low"

\* five points of uncertainty taken off per signal
UncertaintyPct_steep(available_signals) == Max(50, 250 - 50 * available_signals)

\* the signal count kept in a counter that is never reset between calls
UncertaintyPct_accumulated(available_signals) ==
    Max(50, 250 - 25 * (available_signals + Len(log)))

\* uncertainty_pct = max(5, 25 - (available_signals * 2.5)), in tenths of a percent
UncertaintyPct(available_signals) == Max(50, 250 - 25 * available_signals)

\* the points rounded to the nearest integer
UncertaintyPoints_rounded(final_score, uncertainty_pct) ==
    Round(final_score * uncertainty_pct, 1000)

\* uncertainty_points = int(final_score * uncertainty_pct / 100)
UncertaintyPoints(final_score, uncertainty_pct) ==
    IntTrunc(final_score * uncertainty_pct, 1000)

Applicant(r) ==
    [user_id |-> r.user_id, age |-> r.age, occupation |-> r.occupation,
     account_age_months |-> r.account_age_months]

\* POST /credit/assess.  The response also has assessment_id, timestamp, a
\* compliance note, ml_scoring.model_auc, the components of the CTC and the
\* sign of each adjustment as text, none of which enters a score.
AssessResponse(r, enhanced_result, ml) ==
    LET r_score     == enhanced_result.adjusted_score
        final_score == FinalScore(ml.score, r_score)
    IN  [endpoint |-> "assess",
         applicant |-> Applicant(r),
         rule_scoring |->
             [base_score |-> enhanced_result.base_score,
              ctc_adjustment |-> enhanced_result.ctc_adjustment,
              address_adjustment |-> enhanced_result.address_adjustment,
              total_adjustment |-> enhanced_result.total_adjustment,
              final_rule_score |-> r_score],
         ml_scoring |-> [high_risk_probability |-> ml.prob, ml_score |-> ml.score],
         network_trust |->
             [available |-> enhanced_result.ctc_details.available,
              ctc_score |-> enhanced_result.ctc_details.score],
         address_stability |->
             [available |-> enhanced_result.address_details.available,
              stability_score |-> enhanced_result.address_details.score,
              tenure_category |-> enhanced_result.address_details.tenure_category],
         decision |->
             [final_credit_score |-> final_score,
              risk_band |-> RiskBand(final_score),
              reason_codes |-> generate_reason_codes(r)]]

assess(r, p) == AssessResponse(r, enhanced_rule_score(r), ml_score(p))

\* POST /credit/explain; decision is the CreditDecision handed to the explainer
ExplainResponse(r, r_score, ml) ==
    LET final_score == FinalScore(ml.score, r_score)
    IN  [endpoint |-> "explain",
         user_id |-> r.user_id,
         risk_band |-> RiskBand(final_score),
         decision |->
             [final_score |-> final_score,
              risk_band |-> RiskBand(final_score),
              rule_score |-> r_score,
              ml_probability |-> ml.prob,
              ml_score |-> ml.score,
              reason_codes |-> generate_reason_codes(r)]]

explain(r, p) == ExplainResponse(r, rule_score(r), ml_score(p))

\* POST /credit/assess/full
AssessFullResponse(r, full_result, ml) ==
    LET r_score            == full_result.final_enhanced_score
        final_score        == FinalScore(ml.score, r_score)
        available_signals  == full_result.stability_composite.signals_available
        uncertainty_pct    == UncertaintyPct(available_signals)
        uncertainty_points == UncertaintyPoints(final_score, uncertainty_pct)
        \* percentages in hundredths of a percent
        pd_estimate        == ml.prob
        pd_lower           == Max(0, pd_estimate - 5 * uncertainty_pct)
        pd_upper           == Min(10000, pd_estimate + 5 * uncertainty_pct)
    IN  [endpoint |-> "assess_full",
         applicant |-> Applicant(r),
         decision |->
             [final_credit_score |-> final_score,
              score_range |->
                  [lower |-> Max(0, final_score - uncertainty_points),
                   upper |-> Min(1000, final_score + uncertainty_points)],
              risk_band |-> RiskBand(final_score),
              probability_of_default |->
                  [estimate |-> pd_estimate, lower_bound |-> pd_lower,
                   upper_bound |-> pd_upper, uncertainty_pct |-> uncertainty_pct],
              reason_codes |-> generate_reason_codes(r)],
         scoring_breakdown |->
             [base_rule_score |-> full_result.base_rule_score,
              network_adjusted_score |-> full_result.network_adjusted_score,
              fully_enhanced_rule_score |-> r_score,
              ml_score |-> ml.score],
         network_trust |-> full_result.network_community,
         stability |->
             [composite_score |-> full_result.stability_composite.composite_score,
              signals_available |-> full_result.stability_composite.signals_available,
              adjustment |-> full_result.stability_composite.total_adjustment],
         behavioral_signals |-> full_result.signal_breakdown]

assess_full(r, p) == AssessFullResponse(r, fully_enhanced_rule_score(r), ml_score(p))

\* backend/routers/credit.py
ProcessResponse(r, r_score, ml) ==
    LET final_score == FinalScore(ml.score, r_score)
    IN  [endpoint |-> "process_applicant",
         applicant |-> Applicant(r),
         rule_scoring |-> [base_score |-> r_score, final_rule_score |-> r_score],
         ml_scoring |-> [high_risk_probability |-> ml.prob, ml_score |-> ml.score],
         decision |->
             [final_credit_score |-> final_score,
              risk_band |-> RiskBand(final_score),
              reason_codes |-> backend_generate_reason_codes(r)]]

process_applicant(r, p) == ProcessResponse(r, backend_rule_score(r), backend_ml_score(p))

-----------------------------------------------------------------------------
(* Requests: models.py CreditRequest *)

MaxDeviceChanges == 6

MaxChargebacks == 5

ProbPoints == 40

Core(txn, amt, loc, dev, flag, cb, acct) ==
    [user_id |-> "U1", age |-> 30, occupation |-> "Engineer", monthly_income |-> 5000,
     transaction_count_30d |-> txn, avg_transaction_amount |-> amt,
     location_risk_score |-> loc, device_change_frequency |-> dev,
     previous_fraud_flag |-> flag, account_age_months |-> acct,
     chargeback_count |-> cb]

Network(credit, low, high, stab, changes, tenure) ==
    [avg_contact_credit_score |-> credit, low_risk_contact_ratio |-> low,
     high_risk_contact_ratio |-> high, network_stability_ratio |-> stab,
     address_change_count_12m |-> changes, current_address_tenure_months |-> tenure]

Income(cv, seasonal, freq) ==
    [income_coefficient_of_variation |-> cv, seasonal_adjustment_factor |-> seasonal,
     income_frequency_months |-> freq]

Savings(saves, persistence, escrow) ==
    [micro_saves_per_month |-> saves, savings_persistence_months |-> persistence,
     has_escrow_commitment |-> escrow]

Device(tenure, os, reinstalls) ==
    [device_tenure_months |-> tenure, os_change_count_12m |-> os,
     app_reinstall_count |-> reinstalls]

Expense(correlation, volatility) ==
    [expense_income_correlation |-> correlation, expense_volatility |-> volatility]

Utility(ontime, variance, months) ==
    [utility_payment_ontime_ratio |-> ontime, utility_payment_variance |-> variance,
     utility_months_active |-> months]

Merchant(repeat, refunds, disputes) ==
    [repeat_merchant_ratio |-> repeat, refund_ratio |-> refunds,
     dispute_frequency |-> disputes]

Repayment(early, ontime, late) ==
    [early_payment_ratio |-> early, ontime_payment_ratio |-> ontime,
     late_payment_ratio |-> late]

Geo(index, correlation, diversity) ==
    [local_economic_index |-> index, income_local_correlation |-> correlation,
     employment_diversity_score |-> diversity]

\* Every optional field defaults to None
NoNetwork == Network(None, None, None, None, None, None)

NoStability ==
    Income(None, None, None) @@ Savings(None, None, None) @@ Device(None, None, None)
    @@ Expense(None, None) @@ Utility(None, None, None) @@ Merchant(None, None, None)
    @@ Repayment(None, None, None) @@ Geo(None, None, None)

\* Core fields at the bucket boundaries of the rule score
CoreRich ==
    {Core(txn, amt, loc, dev, flag, cb, 24) :
        txn \in {19, 20, 49, 50, 99, 100},
        amt \in {199, 200, 999, 1000},
        loc \in {0, 148, 700, 1000},
        dev \in 0..MaxDeviceChanges,
        flag \in {0, 1},
        cb \in 0..MaxChargebacks}

\* base rule scores 100, 500 and 1000
CoreFew ==
    {Core(0, 0, 0, 0, 0, 0, 24), Core(20, 200, 150, 0, 1, 0, 3),
     Core(100, 1000, 1000, 5, 1, 4, 24)}

NetworkRich ==
    {Network(credit, low, high, stab, changes, tenure) :
        credit \in {None, Some(250), Some(750), Some(900)},
        low \in {None, Some(-10), Some(80), Some(130)},
        high \in {None, Some(10), Some(100)},
        stab \in {None, Some(0), Some(70)},
        changes \in {None, Some(0), Some(3), Some(12)},
        tenure \in {None, Some(0), Some(6), Some(24)}}

\* none; credit 750, low 0.8, high 0.1, stability 0.7, 0 changes, 24 months;
\* a distrusted network
NetworkFew ==
    {NoNetwork,
     Network(Some(750), Some(80), Some(10), Some(70), Some(0), Some(24)),
     Network(Some(300), Some(0), Some(100), Some(0), Some(4), Some(0))}

IncomeBest == Income(Some(0), Some(100), Some(12))

IncomeWorst == Income(Some(200), Some(100), Some(0))

SavingsBest == Savings(Some(400), Some(12), Some(TRUE))

SavingsWorst == Savings(Some(0), Some(0), None)

DeviceBest == Device(Some(24), Some(0), Some(0))

DeviceWorst == Device(Some(0), Some(6), None)

ExpenseBest == Expense(Some(60), Some(0))

ExpenseWorst == Expense(Some(-100), Some(100))

UtilityBest == Utility(Some(100), Some(0), Some(24))

MerchantBest == Merchant(Some(100), Some(0), Some(0))

RepaymentBest == Repayment(Some(100), Some(0), Some(0))

GeoBest == Geo(Some(100), Some(0), Some(100))

\* Each signal absent, at its best or at its worst
StabilityProduct ==
    {i @@ s @@ d @@ e @@ u @@ m @@ r @@ g @@ NoStability :
        i \in {Income(None, None, None), IncomeBest, IncomeWorst},
        s \in {Savings(None, None, None), SavingsBest, SavingsWorst},
        d \in {Device(None, None, None), DeviceBest, DeviceWorst},
        e \in {Expense(None, None), ExpenseBest, ExpenseWorst},
        u \in {Utility(None, None, None), UtilityBest},
        m \in {Merchant(None, None, None), MerchantBest},
        r \in {Repayment(None, None, None), RepaymentBest},
        g \in {Geo(None, None, None), GeoBest}}

\* One signal's fields supplied (one at a time, partial, out of range), the rest absent
StabilitySingles ==
    {x @@ NoStability : x \in
        {Income(None, None, Some(6)), Income(Some(30), None, None),
         Income(None, Some(80), None), Income(Some(-10), Some(150), Some(-3)),
         Savings(None, None, Some(TRUE)), Savings(Some(0), Some(0), Some(TRUE)),
         Savings(Some(200), None, None), Savings(None, Some(-6), None),
         Savings(Some(200), Some(6), Some(TRUE)), Savings(Some(200), Some(6), Some(FALSE)),
         Device(None, None, Some(2)), Device(Some(12), None, None),
         Device(None, Some(-6), None), Device(Some(30), Some(2), Some(9)),
         Expense(Some(60), None), Expense(None, Some(150)),
         Utility(None, None, Some(6)), Utility(Some(90), None, None),
         Utility(None, Some(100), Some(0)), Utility(Some(0), Some(100), Some(0)),
         Merchant(None, None, Some(2)), Merchant(Some(70), None, None),
         Merchant(Some(0), Some(10), Some(5)), Merchant(None, Some(3), None),
         Repayment(None, None, Some(50)), Repayment(Some(0), Some(0), Some(100)),
         Repayment(Some(0), Some(0), Some(0)), Repayment(None, Some(90), None),
         Repayment(Some(-50), Some(20), None),
         Geo(None, None, Some(80)), Geo(Some(0), Some(100), Some(0)),
         Geo(Some(50), Some(-150), None), Geo(None, Some(30), None)}}

StabilityRich == StabilityProduct \cup StabilitySingles

StabilityFew ==
    {NoStability,
     IncomeBest @@ SavingsBest @@ DeviceBest @@ ExpenseBest @@ UtilityBest
        @@ MerchantBest @@ RepaymentBest @@ GeoBest,
     IncomeWorst @@ SavingsWorst @@ DeviceWorst @@ ExpenseWorst @@ NoStability}

\* Classifier outputs, in ten-thousandths: an even grid over [0,1], 0.5996 and 0.6
ProbGrid == {(10000 * i) \div ProbPoints : i \in 0..ProbPoints} \cup {5996, 6000}

Requests(cores, networks, stabilities) ==
    {c @@ n @@ s : c \in cores, n \in networks, s \in stabilities}

-----------------------------------------------------------------------------
(* The state machine: a request and the classifier's probability for it,    *)
(* and the response of the last call.  log is the history of the calls of   *)
(* a session; samples is the backend's sample list, table its               *)
(* credit_assessments table in insertion order, now its clock.              *)

InitWith(requests, probs) ==
    /\ req \in requests
    /\ prob \in probs
    /\ resp = [endpoint |-> "none"]
    /\ log = <<>>
    /\ samples = <<>>
    /\ table = <<>>
    /\ now = 0

Assess ==
    /\ resp' = assess(req, prob)
    /\ UNCHANGED <<req, prob, log, samples, table, now>>

Explain ==
    /\ resp' = explain(req, prob)
    /\ UNCHANGED <<req, prob, log, samples, table, now>>

AssessFull ==
    /\ resp' = assess_full(req, prob)
    /\ UNCHANGED <<req, prob, log, samples, table, now>>

ProcessApplicant ==
    /\ resp' = process_applicant(req, prob)
    /\ UNCHANGED <<req, prob, log, samples, table, now>>

\* The signals handed to a direct call of compute_stability_composite:
\* those named in omitted are left at their default, None
CompositeArgs(r, omitted) ==
    [k \in SignalNames |->
        IF k \in omitted THEN None ELSE Some(StabilitySignals(r)[k])]

StabilityComposite ==
    /\ \E omitted \in {{}} \cup {{k} : k \in SignalNames} :
          resp' = [endpoint |-> "compute_stability_composite",
                   omitted |-> omitted,
                   result |-> compute_stability_composite(CompositeArgs(req, omitted))]
    /\ UNCHANGED <<req, prob, log, samples, table, now>>

Next == Assess \/ Explain \/ AssessFull \/ ProcessApplicant

NextStability == AssessFull \/ StabilityComposite

\* Fusion: a grid of probabilities over a few requests
Init == InitWith(Requests(CoreFew, NetworkFew, StabilityFew), ProbGrid)

Spec == Init /\ [][Next]_vars

\* Rule score: the core fields at their bucket boundaries
InitRule == InitWith(Requests(CoreRich, {NoNetwork}, {NoStability}), {6000})

SpecRule == InitRule /\ [][Next]_vars

\* Network layer: the six network fields present, absent and out of range
InitNetwork == InitWith(Requests(CoreFew, NetworkRich, {NoStability}), {6000})

SpecNetwork == InitNetwork /\ [][Next]_vars

\* CTC only, address only, both
NetworkPartial ==
    {Network(Some(750), None, None, None, None, None),
     Network(None, None, None, None, None, Some(24)),
     Network(Some(750), Some(80), Some(10), Some(70), Some(0), Some(24))}

\* Stability layer: the eight behavioural signals
InitStability ==
    InitWith(Requests({Core(20, 200, 150, 0, 1, 0, 3)}, {NoNetwork}, StabilityRich)
             \cup Requests({Core(20, 200, 150, 0, 1, 0, 3)}, NetworkPartial,
                           StabilityFew),
             {6000})

SpecStability == InitStability /\ [][NextStability]_vars

\* CTC fields absent, at the ends of their ranges and between; no address
CtcGrid ==
    {Network(credit, low, high, stab, None, None) :
        credit \in {None, Some(300), Some(549), Some(561), Some(750), Some(900)},
        low \in {None, Some(0), Some(80), Some(100)},
        high \in {None, Some(0), Some(10), Some(100)},
        stab \in {None, Some(0), Some(70), Some(100)}}

\* CTC fields outside their ranges
CtcOutOfRange ==
    {Network(Some(250), Some(-10), Some(130), Some(-5), None, None),
     Network(Some(950), Some(130), Some(-10), Some(120), None, None),
     Network(Some(950), None, None, None, None, None),
     Network(None, Some(130), None, None, None, None),
     Network(None, None, Some(-10), None, None, None),
     Network(None, None, None, Some(120), None, None)}

\* Address fields absent, in range and out of range; no CTC
AddressGrid ==
    {Network(None, None, None, None, changes, tenure) :
        changes \in {None, Some(-1), Some(0), Some(1), Some(2), Some(3), Some(4),
                     Some(12)},
        tenure \in {None, Some(-3), Some(0), Some(5), Some(6), Some(17), Some(18),
                    Some(23), Some(24), Some(300)}}

\* The ten signal evaluators: one layer varied at a time
InitSignals ==
    InitWith(Requests({Core(20, 200, 150, 0, 1, 0, 3)},
                      CtcGrid \cup CtcOutOfRange \cup AddressGrid, {NoStability})
             \cup Requests({Core(20, 200, 150, 0, 1, 0, 3)}, {NoNetwork},
                           StabilitySingles \cup StabilityFew),
             {6000})

SpecSignals == InitSignals /\ [][NextStability]_vars

-----------------------------------------------------------------------------
(* A session: calls with changing requests, each recorded in log *)

MaxLog == 3

SessionRequests ==
    Requests({Core(20, 200, 150, 0, 1, 0, 3)},
             {NoNetwork},
             {NoStability,
              IncomeBest @@ SavingsBest @@ DeviceBest @@ ExpenseBest @@ UtilityBest
                 @@ MerchantBest @@ RepaymentBest @@ GeoBest})

SessionProbs == {2500, 5996}

\* one call served: the request, the classifier's answer and the response
Serve(r, p, response) ==
    /\ Len(log) < MaxLog
    /\ req' = r
    /\ prob' = p
    /\ resp' = response
    /\ log' = Append(log, [endpoint |-> response.endpoint, req |-> r, prob |-> p,
                           decision |-> response.decision])
    /\ UNCHANGED <<samples, table, now>>

SessionAssess ==
    \E r \in SessionRequests, p \in SessionProbs : Serve(r, p, assess(r, p))

SessionExplain ==
    \E r \in SessionRequests, p \in SessionProbs : Serve(r, p, explain(r, p))

SessionAssessFull ==
    \E r \in SessionRequests, p \in SessionProbs : Serve(r, p, assess_full(r, p))

NextSession == SessionAssess \/ SessionExplain \/ SessionAssessFull

InitSession == InitWith(SessionRequests, SessionProbs)

SpecSession == InitSession /\ [][NextSession]_vars

-----------------------------------------------------------------------------
(* backend/routers/credit.py process-next over backend/database.py *)

MaxSamples == 3

MaxClock == 4

\* Applicants of the sample file, told apart by user_id
SamplePool ==
    {[user_id |-> "U1"] @@ Core(0, 0, 0, 0, 0, 0, 24),
     [user_id |-> "U2"] @@ Core(20, 200, 150, 0, 1, 0, 3),
     [user_id |-> "U3"] @@ Core(100, 1000, 1000, 5, 1, 4, 24)}

\* Non-empty sample lists with pairwise distinct user_ids
SampleLists ==
    {s \in UNION {[1..n -> SamplePool] : n \in 1..MaxSamples} :
        \A i, j \in DOMAIN s : i # j => s[i].user_id # s[j].user_id}

QueueProbs == {2500, 9000}

Least(S) == CHOOSE x \in S : \A y \in S : x <= y

\* SELECT user_id FROM credit_assessments
get_processed_applicant_ids(t) == {t[i].user_id : i \in DOMAIN t}

\* the rows ORDER BY created_at ASC LIMIT 1 may return: any of the oldest
Oldest(t) == {i \in DOMAIN t : \A j \in DOMAIN t : t[i].created_at <= t[j].created_at}

\* a DELETE that removes nothing
DeleteUser_none(t, user_id) == t

\* DELETE FROM credit_assessments WHERE user_id = ?
DeleteUser(t, user_id) == SelectSeq(t, LAMBDA row : row.user_id # user_id)

\* delete_oldest_credit_assessment: the user_id returned and the table left
delete_oldest_credit_assessment(t) ==
    IF t = <<>>
    THEN {[user_id |-> None, table |-> t]}
    ELSE {[user_id |-> Some(t[i].user_id), table |-> DeleteUser(t, t[i].user_id)] :
             i \in Oldest(t)}

\* The row save_credit_assessment inserts at time at.  id is a fresh uuid4
\* and is left out; assessment_id is unique in the table.
AssessmentRow(result, at) ==
    [assessment_id |-> <<"CR", result.applicant.user_id, at>>,
     user_id |-> result.applicant.user_id,
     final_score |-> result.decision.final_credit_score,
     risk_band |-> result.decision.risk_band,
     reason_codes |-> result.decision.reason_codes,
     rule_score |-> result.rule_scoring.final_rule_score,
     ml_score |-> result.ml_scoring.ml_score,
     ml_probability |-> result.ml_scoring.high_risk_probability,
     created_at |-> at]

\* save_credit_assessment: the INSERT fails on a repeated assessment_id
save_credit_assessment(t, row) ==
    IF \E i \in DOMAIN t : t[i].assessment_id = row.assessment_id
    THEN [saved |-> FALSE, table |-> t]
    ELSE [saved |-> TRUE, table |-> Append(t, row)]

\* The applicant process-next picks and the table left by its deletions
NextApplicant(all_applicants, t) ==
    LET processed_ids == get_processed_applicant_ids(t)
        pending == {i \in DOMAIN all_applicants :
                       all_applicants[i].user_id \notin processed_ids}
    IN  IF pending # {}
        THEN {[applicant |-> all_applicants[Least(pending)], table |-> t]}
        ELSE UNION {
               LET same == {k \in DOMAIN all_applicants :
                               Some(all_applicants[k].user_id) = d.user_id}
               IN  IF same # {}
                   THEN {[applicant |-> all_applicants[Least(same)],
                          table |-> d.table]}
                   ELSE {[applicant |-> all_applicants[1], table |-> d2.table] :
                            d2 \in delete_oldest_credit_assessment(d.table)} :
               d \in delete_oldest_credit_assessment(t)}

\* process_applicant, save_credit_assessment and the answer
ProcessNextSaved(choice, p, result, saved) ==
    /\ req' = choice.applicant
    /\ prob' = p
    /\ table' = saved.table
    /\ resp' = [endpoint |-> "process_next",
                status |-> IF saved.saved THEN 200 ELSE 500,
                assessment |-> result]

\* POST /api/v1/credit/process-next
ProcessNext ==
    \E tick \in {0, 1}, p \in QueueProbs :
        /\ now + tick <= MaxClock
        /\ now' = now + tick
        /\ IF samples = <<>>
           THEN /\ resp' = [endpoint |-> "process_next", status |-> 404]
                /\ UNCHANGED <<req, prob, table>>
           ELSE \E choice \in NextApplicant(samples, table) :
                    ProcessNextSaved(choice, p, process_applicant(choice.applicant, p),
                        save_credit_assessment(choice.table,
                            AssessmentRow(process_applicant(choice.applicant, p),
                                          now + tick)))
        /\ UNCHANGED <<log, samples>>

NextQueue == ProcessNext

\* an empty table and a non-empty sample list with distinct user_ids
InitQueue ==
    /\ samples \in SampleLists
    /\ req = samples[1]
    /\ prob = 2500
    /\ resp = [endpoint |-> "none"]
    /\ log = <<>>
    /\ table = <<>>
    /\ now = 0

SpecQueue == InitQueue /\ [][NextQueue]_vars

-----------------------------------------------------------------------------
(* Reading a response *)

Endpoints == {"assess", "explain", "assess_full", "process_applicant"}

Answered == resp.endpoint \in Endpoints

\* the fused final score of the response
FinalOf(x) ==
    IF x.endpoint = "explain" THEN x.decision.final_score
    ELSE x.decision.final_credit_score

\* the ML score the response was fused from
MlOf(x) ==
    CASE x.endpoint = "explain"     -> x.decision.ml_score
      [] x.endpoint = "assess_full" -> x.scoring_breakdown.ml_score
      [] OTHER                      -> x.ml_scoring.ml_score

\* the base rule score of the response
BaseOf(x) ==
    CASE x.endpoint = "explain"     -> x.decision.rule_score
      [] x.endpoint = "assess_full" -> x.scoring_breakdown.base_rule_score
      [] OTHER                      -> x.rule_scoring.base_score

Clamp(v, lo, hi) == IF v < lo THEN lo ELSE IF v > hi THEN hi ELSE v

\* the unclamped sum of the five buckets, with the location points given
BucketSum(r, location_points) ==
    (IF r.transaction_count_30d >= 100 THEN 300
     ELSE IF r.transaction_count_30d >= 50 THEN 200
     ELSE IF r.transaction_count_30d >= 20 THEN 120 ELSE 40)
    + (IF r.avg_transaction_amount >= 1000 THEN 250
       ELSE IF r.avg_transaction_amount >= 200 THEN 150 ELSE 60)
    + location_points
    + (IF r.device_change_frequency * 40 < 200 THEN r.device_change_frequency * 40
       ELSE 200)
    + (IF r.previous_fraud_flag = 1 THEN 200 ELSE 0)
    + (IF r.chargeback_count * 50 < 200 THEN r.chargeback_count * 50 ELSE 200)

-----------------------------------------------------------------------------
(* Claims *)

\* the rule-score variant each entry point is to fuse
C1_Variant ==
    CASE resp.endpoint = "assess"      -> enhanced_rule_score(req).adjusted_score
      [] resp.endpoint = "assess_full" ->
            fully_enhanced_rule_score(req).final_enhanced_score
      [] OTHER                         -> rule_score(req)

C2_RiskBandThresholds ==
    Answered =>
        LET f == FinalOf(resp)
            b == resp.decision.risk_band
        IN  /\ b \in {"Low", "Moderate", "High"}
            /\ (b = "High") <=> (f >= 700)
            /\ (b = "Moderate") <=> (350 <= f /\ f < 700)
            /\ (b = "Low") <=> (f < 350)

\* a final score exactly at the High threshold
C2_Witness ==
    /\ Answered
    /\ FinalOf(resp) = 700
    /\ resp.decision.risk_band = "High"

\* C3: enhanced_score = clamp(base - network_total, 0, 1000), then
\* fully_enhanced_score = clamp(enhanced - stability_total, 0, 1000); a positive
\* adjustment never raises and a negative one never lowers the risk score.
C3_TwoClampedStages ==
    LET network   == compute_network_adjustments(req).total_adjustment
        stability == compute_stability_composite(
                         [k \in SignalNames |-> Some(StabilitySignals(req)[k])]
                     ).total_adjustment
    IN  /\ resp.endpoint = "assess" =>
              LET base     == resp.rule_scoring.base_score
                  enhanced == resp.rule_scoring.final_rule_score
              IN  /\ enhanced = Clamp(base - network, 0, 1000)
                  /\ resp.rule_scoring.total_adjustment = -network
                  /\ network >= 0 => enhanced <= base
                  /\ network <= 0 => enhanced >= base
        /\ resp.endpoint = "assess_full" =>
              LET base     == resp.scoring_breakdown.base_rule_score
                  enhanced == resp.scoring_breakdown.network_adjusted_score
                  full     == resp.scoring_breakdown.fully_enhanced_rule_score
              IN  /\ enhanced = Clamp(base - network, 0, 1000)
                  /\ full = Clamp(enhanced - stability, 0, 1000)
                  /\ resp.stability.adjustment = -stability
                  /\ network >= 0 => enhanced <= base
                  /\ network <= 0 => enhanced >= base
                  /\ stability >= 0 => full <= enhanced
                  /\ stability <= 0 => full >= enhanced

\* base 500, CTC impact 54, address impact 50: network total 104, enhanced 396
C3_Witness ==
    /\ resp.endpoint = "assess"
    /\ resp.rule_scoring.base_score = 500
    /\ resp.rule_scoring.ctc_adjustment = -54
    /\ resp.rule_scoring.address_adjustment = -50
    /\ resp.rule_scoring.total_adjustment = -104
    /\ resp.rule_scoring.final_rule_score = 396

\* a valid applicant: non-negative counts and amount, location risk in [0,1],
\* fraud flag 0 or 1
ValidApplicant(r) ==
    /\ r.transaction_count_30d >= 0
    /\ r.avg_transaction_amount >= 0
    /\ r.device_change_frequency >= 0
    /\ r.chargeback_count >= 0
    /\ r.location_risk_score \in 0..1000
    /\ r.previous_fraud_flag \in {0, 1}

\* C4: for every valid applicant rule_score is an integer in [0,1000], although
\* the unclamped sum of the buckets can exceed 1000.
C4_RuleScoreInRange ==
    (Answered /\ ValidApplicant(req)) => BaseOf(resp) \in 0..1000

\* the buckets sum to more than 1000 and the score is 1000
C4_Witness ==
    /\ Answered
    /\ ValidApplicant(req)
    /\ BucketSum(req, (req.location_risk_score * 200) \div 1000) > 1000
    /\ BaseOf(resp) = 1000

C6_NetworkTotalClamped ==
    resp.endpoint \in {"assess", "assess_full"} =>
        LET ctc     == compute_ctc(req.avg_contact_credit_score,
                           req.low_risk_contact_ratio, req.high_risk_contact_ratio,
                           req.network_stability_ratio).impact_adjustment
            address == compute_address_stability(req.address_change_count_12m,
                           req.current_address_tenure_months).impact_adjustment
            total   == IF resp.endpoint = "assess"
                       THEN -resp.rule_scoring.total_adjustment
                       ELSE -resp.network_trust.total_network_adjustment
        IN  /\ total = Clamp(ctc + address, -120, 120)
            /\ total \in -120..120
            /\ (ctc + address \in -120..120) => total = ctc + address

\* CTC impact 86 and address impact 50 sum to 136: the total is 120
C6_Witness ==
    /\ resp.endpoint = "assess"
    /\ resp.rule_scoring.ctc_adjustment = -86
    /\ resp.rule_scoring.address_adjustment = -50
    /\ resp.rule_scoring.total_adjustment = -120

\* the signals a call of compute_stability_composite found available: passed
\* (not omitted) and reporting available = True
AvailableIn(r, omitted) ==
    {k \in SignalNames \ omitted : StabilitySignals(r)[k].available}

\* the omitted signals and the composite a response reports
OmittedOf(x) == IF x.endpoint = "assess_full" THEN {} ELSE x.omitted

CompositeOfResponse(x) ==
    IF x.endpoint = "assess_full"
    THEN [composite_score |-> x.stability.composite_score,
          available_count |-> x.stability.signals_available,
          total_adjustment |-> -x.stability.adjustment]
    ELSE [composite_score |-> x.result.composite_score,
          available_count |-> x.result.available_count,
          total_adjustment |-> x.result.total_adjustment]

StabilityAnswered == resp.endpoint \in {"assess_full", "compute_stability_composite"}

\* the plain sum of the impacts of the available signals
RawStabilitySum(r, omitted) ==
    Sum([k \in SignalNames |-> StabilitySignals(r)[k].impact_adjustment],
        AvailableIn(r, omitted))

\* C7: compute_stability_composite returns total_adjustment = clamp(sum of
\* impact_adjustment over the available signals, -150, 150): it lies in
\* [-150,150] for every subset of available signals, signals that are None or
\* unavailable contribute nothing, and it is 0 when no signal is available.
C7_StabilityTotalClamped ==
    StabilityAnswered =>
        LET available == AvailableIn(req, OmittedOf(resp))
            total     == CompositeOfResponse(resp).total_adjustment
        IN  /\ total = Clamp(RawStabilitySum(req, OmittedOf(resp)), -150, 150)
            /\ total \in -150..150
            /\ available = {} => total = 0
            /\ resp.endpoint = "compute_stability_composite" =>
                  DOMAIN resp.result.signal_details = available

\* all eight signals at their caps: impacts sum to 355, the total is 150
C7_Witness ==
    /\ resp.endpoint = "compute_stability_composite"
    /\ resp.omitted = {}
    /\ AvailableIn(req, {}) = SignalNames
    /\ RawStabilitySum(req, {}) = 355
    /\ resp.result.total_adjustment = 150

\* the weights as documented, in hundredths
C8_Weights ==
    [income_rhythm |-> 20, savings_cadence |-> 10, device_persistence |-> 10,
     expense_elasticity |-> 10, utility_stability |-> 10, merchant_loyalty |-> 10,
     repayment_velocity |-> 15, geo_resilience |-> 15]

\* C8: composite_score is the weighted mean of the scores of the available
\* signals only, the fixed weights renormalised to the available subset (reported
\* to three decimals): an unavailable signal passed or left out never changes it,
\* with a single available signal it equals that signal's score, it lies between
\* the least and the greatest available score, and with none available it is 0.5.
C8_CompositeIsRenormalisedMean ==
    StabilityAnswered =>
        LET available == AvailableIn(req, OmittedOf(resp))
            score     == [k \in SignalNames |-> StabilitySignals(req)[k].score]
            composite == CompositeOfResponse(resp).composite_score
            weighted  == Sum([k \in SignalNames |-> C8_Weights[k] * score[k]], available)
            weight    == Sum(C8_Weights, available)
        IN  /\ available = {} => composite = 500
            /\ available # {} =>
                  /\ composite = Round(weighted, weight)
                  /\ \E k \in available : score[k] <= composite
                  /\ \E k \in available : composite <= score[k]
            /\ \A k \in available : available = {k} => composite = score[k]
            /\ (\A k \in OmittedOf(resp) : ~StabilitySignals(req)[k].available) =>
                  composite =
                      compute_stability_composite(CompositeArgs(req, {})).composite_score

\* income rhythm 0.0 (weight 0.20) and repayment velocity 1.0 (weight 0.15), an
\* unavailable signal left out of the call: the composite is 0.429
C8_Witness ==
    /\ resp.endpoint = "compute_stability_composite"
    /\ resp.omitted = {"savings_cadence"}
    /\ AvailableIn(req, {}) = {"income_rhythm", "repayment_velocity"}
    /\ StabilitySignals(req)["income_rhythm"].score = 0
    /\ StabilitySignals(req)["repayment_velocity"].score = 1000
    /\ resp.result.composite_score = 429

\* the optional request fields feeding each of the ten signals
C9_Fields ==
    [ctc |-> {"avg_contact_credit_score", "low_risk_contact_ratio",
              "high_risk_contact_ratio", "network_stability_ratio"},
     address_stability |-> {"address_change_count_12m",
                            "current_address_tenure_months"},
     income_rhythm |-> {"income_coefficient_of_variation",
                        "seasonal_adjustment_factor", "income_frequency_months"},
     savings_cadence |-> {"micro_saves_per_month", "savings_persistence_months",
                          "has_escrow_commitment"},
     device_persistence |-> {"device_tenure_months", "os_change_count_12m",
                             "app_reinstall_count"},
     expense_elasticity |-> {"expense_income_correlation", "expense_volatility"},
     utility_stability |-> {"utility_payment_ontime_ratio",
                            "utility_payment_variance", "utility_months_active"},
     merchant_loyalty |-> {"repeat_merchant_ratio", "refund_ratio",
                           "dispute_frequency"},
     repayment_velocity |-> {"early_payment_ratio", "ontime_payment_ratio",
                             "late_payment_ratio"},
     geo_resilience |-> {"local_economic_index", "income_local_correlation",
                         "employment_diversity_score"}]

\* the ten evaluator results for a request
EvaluatorResults(r) ==
    [k \in DOMAIN C9_Fields |->
        CASE k = "ctc"               -> compute_network_adjustments(r).ctc
          [] k = "address_stability" -> compute_network_adjustments(r).address_stability
          [] OTHER                   -> StabilitySignals(r)[k]]

\* C9: each of the ten evaluators reports unavailable exactly when every optional
\* field feeding its signal is absent; any single supplied field makes the
\* signal available.
C9_UnavailableIffAllFieldsAbsent ==
    resp.endpoint = "assess_full" =>
        \A k \in DOMAIN C9_Fields :
            LET reported == CASE k = "ctc" -> resp.network_trust.ctc_available
                              [] k = "address_stability" ->
                                    resp.network_trust.address_available
                              [] OTHER -> resp.behavioral_signals[k].available
            IN  reported <=> (\E f \in C9_Fields[k] : ~IsNone(req[f]))

\* C10: whenever one of the ten evaluators reports available = false its score is
\* 0.5 and its impact_adjustment is 0, and the signal changes neither the network
\* total, the stability total, the composite score nor available_count.
C10_UnavailableIsNeutral ==
    StabilityAnswered =>
        LET results == EvaluatorResults(req)
            network == compute_network_adjustments(req)
        IN  /\ \A k \in DOMAIN results :
                  ~results[k].available =>
                      results[k].score = 500 /\ results[k].impact_adjustment = 0
            /\ ~results["ctc"].available =>
                  network.total_adjustment =
                      results["address_stability"].impact_adjustment
            /\ ~results["address_stability"].available =>
                  network.total_adjustment = results["ctc"].impact_adjustment
            /\ resp.endpoint = "assess_full" =>
                  /\ resp.network_trust.total_network_adjustment =
                         -network.total_adjustment
                  /\ resp.stability.signals_available =
                         Cardinality(AvailableIn(req, {}))
            /\ (/\ resp.endpoint = "compute_stability_composite"
                /\ \A k \in resp.omitted : ~results[k].available) =>
                  LET all == compute_stability_composite(CompositeArgs(req, {}))
                  IN  /\ resp.result.total_adjustment = all.total_adjustment
                      /\ resp.result.composite_score = all.composite_score
                      /\ resp.result.available_count = all.available_count
                      /\ resp.result.available_count =
                             Cardinality(AvailableIn(req, {}))

\* income rhythm unavailable beside available signals: the composite is the
\* same with the signal passed or left out
C10_Witness ==
    /\ resp.endpoint = "compute_stability_composite"
    /\ resp.omitted = {"income_rhythm"}
    /\ ~StabilitySignals(req)["income_rhythm"].available
    /\ AvailableIn(req, {}) # {}
    /\ resp.result = compute_stability_composite(CompositeArgs(req, {}))

\* v = int(num/den), den > 0, for a quotient evaluated in double precision: the
\* truncation toward zero of a value within a thousandth of num/den
TruncatedWithin(num, den, v) ==
    /\ IntTrunc(1000 * num - den, 1000 * den) <= v
    /\ v <= IntTrunc(1000 * num + den, 1000 * den)

\* the cap of each of the ten signals
MaxImpactOf ==
    [ctc |-> 100, address_stability |-> 50, income_rhythm |-> 70,
     savings_cadence |-> 50, device_persistence |-> 40, expense_elasticity |-> 40,
     utility_stability |-> 35, merchant_loyalty |-> 30, repayment_velocity |-> 50,
     geo_resilience |-> 40]

\* the score (thousandths) and the impact of each available signal as the
\* response reports them
ReportedSignals ==
    IF resp.endpoint = "assess_full"
    THEN [k \in {s \in {"ctc", "address_stability"} : EvaluatorResults(req)[s].available}
            |-> IF k = "ctc"
                THEN [score |-> resp.network_trust.ctc_score,
                      impact |-> -resp.network_trust.ctc_adjustment]
                ELSE [score |-> resp.network_trust.address_score,
                      impact |-> -resp.network_trust.address_adjustment]]
    ELSE IF resp.endpoint = "compute_stability_composite"
    THEN resp.result.signal_details
    ELSE <<>>

\* C11 as stated: impact = clamp(round((score - 0.5) * 2 * MAX_IMPACT), -MAX_IMPACT,
\* MAX_IMPACT), the scaled deviation from 0.5 rounded to the nearest integer.
C11_ImpactRounded ==
    \A k \in DOMAIN ReportedSignals :
        LET m == MaxImpactOf[k]
            s == ReportedSignals[k]
        IN  s.impact = Clamp(Round((2 * s.score - 1000) * m, 1000), -m, m)

\* C11, amended: impact = clamp(int((score - 0.5) * 2 * MAX_IMPACT), -MAX_IMPACT,
\* MAX_IMPACT), the scaled deviation truncated toward zero, taken from the score
\* before the result rounds it to three decimals; so with the reported score r the
\* impact lies between int((r - 0.5)*2*MAX - MAX/1000) and
\* int((r - 0.5)*2*MAX + MAX/1000), and for CTC it is the truncation of
\* (ctc_score - 0.5) * 200.
C11_ImpactTruncated ==
    /\ \A k \in DOMAIN ReportedSignals :
          LET m == MaxImpactOf[k]
              s == ReportedSignals[k]
              x == (2 * s.score - 1000) * m
          IN  /\ s.impact >= Clamp(IntTrunc(x - m, 1000), -m, m)
              /\ s.impact <= Clamp(IntTrunc(x + m, 1000), -m, m)
    /\ "ctc" \in DOMAIN ReportedSignals =>
          LET n == CtcNumerator(req.avg_contact_credit_score,
                       req.low_risk_contact_ratio, req.high_risk_contact_ratio,
                       req.network_stability_ratio)
          IN  TruncatedWithin((2 * n - 6000) * 100, 6000, ReportedSignals["ctc"].impact)

\* a CTC score of 0.504: the scaled deviation 0.8 is truncated to impact 0
C11_Witness ==
    /\ resp.endpoint = "assess_full"
    /\ resp.network_trust.ctc_available
    /\ resp.network_trust.ctc_score = 504
    /\ resp.network_trust.ctc_adjustment = 0

\* C12: for every input, in range or not, each evaluator's impact_adjustment is
\* an integer within its cap: CTC 100, Address 50, Income Rhythm 70, Savings
\* Cadence 50, Device Persistence 40, Expense Elasticity 40, Utility Stability 35,
\* Merchant Loyalty 30, Repayment Velocity 50, Geo-Resilience 40.
C12_ImpactWithinCap ==
    /\ \A k \in DOMAIN ReportedSignals :
          ReportedSignals[k].impact \in -MaxImpactOf[k]..MaxImpactOf[k]
    /\ StabilityAnswered =>
          \A k \in DOMAIN MaxImpactOf :
              EvaluatorResults(req)[k].impact_adjustment
                  \in -MaxImpactOf[k]..MaxImpactOf[k]

\* savings_persistence_months = -6: the deviation scales to -70 and is cut to -50
C12_Witness ==
    /\ resp.endpoint = "compute_stability_composite"
    /\ req.savings_persistence_months = Some(-6)
    /\ "savings_cadence" \in DOMAIN resp.result.signal_details
    /\ (2 * resp.result.signal_details["savings_cadence"].score - 1000) * 50 < -50000
    /\ resp.result.signal_details["savings_cadence"].impact = -50

\* C13: for each of the ten evaluators and every numeric input, out-of-range
\* values included, the reported score lies in [0,1].
C13_ScoreInUnitInterval ==
    /\ \A k \in DOMAIN ReportedSignals : ReportedSignals[k].score \in 0..1000
    /\ resp.endpoint = "assess_full" =>
          \A k \in SignalNames : resp.behavioral_signals[k].score \in 0..1000

\* at least one of the four CTC fields is supplied
CtcSupplied(r) == \E f \in C9_Fields["ctc"] : ~IsNone(r[f])

\* every supplied CTC field is within its range: credit 300-900, ratios 0-1
ValidCtc(r) ==
    /\ IsNone(r.avg_contact_credit_score) \/ r.avg_contact_credit_score[1] \in 300..900
    /\ \A f \in C9_Fields["ctc"] \ {"avg_contact_credit_score"} :
          IsNone(r[f]) \/ r[f][1] \in 0..100

\* 0.4*(credit-300)/600 + 0.3*low_risk + 0.2*stability + 0.1*(1-high_risk) in
\* six-thousandths, missing fields at 600, 0.5, 0.2, 0.5 and every field clamped
C14_Score6000(r) ==
    LET credit    == Clamp(IF IsNone(r.avg_contact_credit_score) THEN 600
                           ELSE r.avg_contact_credit_score[1], 300, 900)
        low_risk  == Clamp(IF IsNone(r.low_risk_contact_ratio) THEN 50
                           ELSE r.low_risk_contact_ratio[1], 0, 100)
        high_risk == Clamp(IF IsNone(r.high_risk_contact_ratio) THEN 20
                           ELSE r.high_risk_contact_ratio[1], 0, 100)
        stability == Clamp(IF IsNone(r.network_stability_ratio) THEN 50
                           ELSE r.network_stability_ratio[1], 0, 100)
    IN  4 * (credit - 300) + 18 * low_risk + 12 * stability + 6 * (100 - high_risk)

\* C14: with at least one CTC field present compute_ctc fills each missing field
\* with its neutral default (600, 0.5, 0.2, 0.5), clamps credit into [300,900] and
\* the ratios into [0,1], and returns ctc_score = 0.4*(credit-300)/600 +
\* 0.3*low_risk + 0.2*stability + 0.1*(1-high_risk), to three decimals.
C14_CtcScoreFormula ==
    (resp.endpoint = "assess_full" /\ CtcSupplied(req)) =>
        /\ resp.network_trust.ctc_available
        /\ resp.network_trust.ctc_score = Round(1000 * C14_Score6000(req), 6000)

\* credit 750, low_risk 0.8, high_risk 0.1, stability 0.7: ctc_score 0.77, impact 54
C14_Witness ==
    /\ resp.endpoint = "assess_full"
    /\ req.avg_contact_credit_score = Some(750)
    /\ req.low_risk_contact_ratio = Some(80)
    /\ req.high_risk_contact_ratio = Some(10)
    /\ req.network_stability_ratio = Some(70)
    /\ resp.network_trust.ctc_score = 770
    /\ resp.network_trust.ctc_adjustment = -54

\* C15: for all valid CTC inputs, any subset present, ctc_score lies in [0,1] and
\* the CTC impact in [-100,100].
C15_CtcRanges ==
    (resp.endpoint = "assess_full" /\ ValidCtc(req)) =>
        /\ resp.network_trust.ctc_score \in 0..1000
        /\ -resp.network_trust.ctc_adjustment \in -100..100

\* the best valid network: ctc_score 1.0 and impact 100
C15_Witness ==
    /\ resp.endpoint = "assess_full"
    /\ ValidCtc(req)
    /\ resp.network_trust.ctc_available
    /\ resp.network_trust.ctc_score = 1000
    /\ resp.network_trust.ctc_adjustment = -100

\* C16 as stated: for valid CTC inputs with a field present the impact is 0 if
\* and only if ctc_score is exactly 0.5.
C16_ZeroImpactIffHalf ==
    (resp.endpoint = "assess_full" /\ ValidCtc(req) /\ CtcSupplied(req)) =>
        (resp.network_trust.ctc_adjustment = 0 <=> resp.network_trust.ctc_score = 500)

\* C16, amended: for valid CTC inputs with a field present the impact is 0 for
\* every unrounded ctc_score strictly between 0.495 and 0.505 and non-zero for
\* every score below 0.495 or above 0.505; a score of exactly 0.5 gives impact
\* 0, and so do scores such as 0.504 and 0.496.
C16_ZeroImpactIffNearHalf ==
    (resp.endpoint = "assess_full" /\ ValidCtc(req) /\ CtcSupplied(req)) =>
        LET n == C14_Score6000(req)
        IN  /\ (2970 < n /\ n < 3030) => resp.network_trust.ctc_adjustment = 0
            /\ (n < 2970 \/ n > 3030) => resp.network_trust.ctc_adjustment # 0
            /\ resp.network_trust.ctc_score = 500 =>
                  resp.network_trust.ctc_adjustment = 0

\* ctc_score 0.496, not 0.5, with impact 0
C16_Witness ==
    /\ resp.endpoint = "assess_full"
    /\ ValidCtc(req)
    /\ CtcSupplied(req)
    /\ resp.network_trust.ctc_score = 496
    /\ resp.network_trust.ctc_adjustment = 0

\* contact credit scores within [300,900]
C17_Credits == {300 + 50 * i : i \in 0..12} \cup {549, 561}

\* the request with avg_contact_credit_score raised to c
C17_Raised(r, c) == [r EXCEPT !.avg_contact_credit_score = Some(c)]

\* C17: raising avg_contact_credit_score within [300,900], the other three CTC
\* inputs held fixed, never decreases ctc_score, never decreases the CTC impact
\* and never increases the enhanced rule score.
C17_CreditMonotone ==
    (/\ resp.endpoint = "assess_full"
     /\ ValidCtc(req)
     /\ ~IsNone(req.avg_contact_credit_score)) =>
        \A c \in C17_Credits :
            c >= req.avg_contact_credit_score[1] =>
                LET raised == enhanced_rule_score(C17_Raised(req, c))
                IN  /\ raised.ctc_details.score >= resp.network_trust.ctc_score
                    /\ -raised.ctc_adjustment >= -resp.network_trust.ctc_adjustment
                    /\ raised.adjusted_score
                           <= resp.scoring_breakdown.network_adjusted_score

\* credit 300 answered; raised to 900 the enhanced rule score is strictly lower
C17_Witness ==
    /\ resp.endpoint = "assess_full"
    /\ ValidCtc(req)
    /\ req.avg_contact_credit_score = Some(300)
    /\ enhanced_rule_score(C17_Raised(req, 900)).adjusted_score
           < resp.scoring_breakdown.network_adjusted_score

\* at least one of the two address fields is supplied
AddressSupplied(r) == \E f \in C9_Fields["address_stability"] : ~IsNone(r[f])

\* 0.6*min(1, tenure/24) + 0.4*(1 - min(1, changes/4)) in 240ths, a missing
\* field at 1 change or 12 months, changes clamped to [0,10], tenure to [0,240]
C18_Score240(r) ==
    LET changes == Clamp(IF IsNone(r.address_change_count_12m) THEN 1
                         ELSE r.address_change_count_12m[1], 0, 10)
        tenure  == Clamp(IF IsNone(r.current_address_tenure_months) THEN 12
                         ELSE r.current_address_tenure_months[1], 0, 240)
    IN  6 * (IF tenure < 24 THEN tenure ELSE 24)
        + 24 * (4 - (IF changes < 4 THEN changes ELSE 4))

\* the category from tenure and changes, a missing field at its default
C18_Category(r) ==
    LET changes == IF IsNone(r.address_change_count_12m) THEN 1
                   ELSE r.address_change_count_12m[1]
        tenure  == IF IsNone(r.current_address_tenure_months) THEN 12
                   ELSE r.current_address_tenure_months[1]
    IN  IF tenure >= 18 /\ changes <= 1 THEN "High"
        ELSE IF tenure >= 6 \/ changes <= 2 THEN "Medium"
        ELSE "Low"

\* the address fields supplied are non-negative
C18_InRange(r) ==
    /\ IsNone(r.address_change_count_12m) \/ r.address_change_count_12m[1] >= 0
    /\ IsNone(r.current_address_tenure_months)
          \/ r.current_address_tenure_months[1] >= 0

\* C18 as stated: with an address field present, defaults 1 change and 12
\* months, score = 0.6*min(1, tenure/24) + 0.4*(1 - min(1, changes/4)), category
\* High iff tenure >= 18 and changes <= 1, else Medium iff tenure >= 6 or
\* changes <= 2, else Low, and impact = clamp((score-0.5)*100 rounded, -50, 50).
C18_AddressImpactRounded ==
    (resp.endpoint = "assess_full" /\ AddressSupplied(req) /\ C18_InRange(req)) =>
        LET n == C18_Score240(req)
        IN  /\ resp.network_trust.address_available
            /\ resp.network_trust.address_score = Round(1000 * n, 240)
            /\ EvaluatorResults(req)["address_stability"].category = C18_Category(req)
            /\ -resp.network_trust.address_adjustment
                   = Clamp(Round((2 * n - 240) * 50, 240), -50, 50)

\* C18, amended: as stated, with changes clamped to [0,10] and tenure to [0,240]
\* before scoring, and impact = clamp(int((score-0.5)*100), -50, 50), the product
\* truncated toward zero rather than rounded.
C18_AddressImpactTruncated ==
    (resp.endpoint = "assess_full" /\ AddressSupplied(req)) =>
        LET n == C18_Score240(req)
        IN  /\ resp.network_trust.address_available
            /\ resp.network_trust.address_score = Round(1000 * n, 240)
            /\ EvaluatorResults(req)["address_stability"].category = C18_Category(req)
            /\ -resp.network_trust.address_adjustment \in -50..50
            /\ TruncatedWithin((2 * n - 240) * 50, 240,
                               -resp.network_trust.address_adjustment)

\* tenure 23 with 0 changes: score 0.975, 47.5 truncated to impact 47
C18_Witness ==
    /\ resp.endpoint = "assess_full"
    /\ req.current_address_tenure_months = Some(23)
    /\ req.address_change_count_12m = Some(0)
    /\ EvaluatorResults(req)["address_stability"].category = "High"
    /\ resp.network_trust.address_score = 975
    /\ resp.network_trust.address_adjustment = -47

\* the rule score the answering entry point computes for a request
C19_Score(r) ==
    IF resp.endpoint = "process_applicant" THEN backend_rule_score(r) ELSE rule_score(r)

\* the request with fields the rule score is not to depend on changed
C19_Unrelated(r) ==
    {[r EXCEPT !.age = 70], [r EXCEPT !.occupation = "Driver"],
     [r EXCEPT !.monthly_income = 0], [r EXCEPT !.account_age_months = 1],
     Network(Some(750), Some(80), Some(10), Some(70), Some(0), Some(24)) @@ r,
     IncomeBest @@ SavingsWorst @@ DeviceBest @@ ExpenseWorst @@ UtilityBest
        @@ MerchantBest @@ RepaymentBest @@ GeoBest @@ r}

\* C19: rule_score is monotone non-decreasing in each of transaction_count_30d,
\* avg_transaction_amount, location_risk_score, device_change_frequency,
\* previous_fraud_flag and chargeback_count, the other inputs held fixed, and
\* does not depend on any other applicant field.
C19_RuleScoreMonotone ==
    Answered =>
        LET base == BaseOf(resp)
        IN  /\ \A v \in {19, 20, 49, 50, 99, 100} :
                  v >= req.transaction_count_30d =>
                      C19_Score([req EXCEPT !.transaction_count_30d = v]) >= base
            /\ \A v \in {199, 200, 999, 1000} :
                  v >= req.avg_transaction_amount =>
                      C19_Score([req EXCEPT !.avg_transaction_amount = v]) >= base
            /\ \A v \in {0, 148, 700, 1000} :
                  v >= req.location_risk_score =>
                      C19_Score([req EXCEPT !.location_risk_score = v]) >= base
            /\ \A v \in 0..MaxDeviceChanges :
                  v >= req.device_change_frequency =>
                      C19_Score([req EXCEPT !.device_change_frequency = v]) >= base
            /\ \A v \in {0, 1} :
                  v >= req.previous_fraud_flag =>
                      C19_Score([req EXCEPT !.previous_fraud_flag = v]) >= base
            /\ \A v \in 0..MaxChargebacks :
                  v >= req.chargeback_count =>
                      C19_Score([req EXCEPT !.chargeback_count = v]) >= base
            /\ \A r \in C19_Unrelated(req) : C19_Score(r) = base

\* one more device change raises an uncapped score by 40; a different age, a
\* network and stability signals leave it as it is
C19_Witness ==
    /\ resp.endpoint = "assess"
    /\ req.device_change_frequency = 2
    /\ BaseOf(resp) < 900
    /\ rule_score([req EXCEPT !.device_change_frequency = 3]) = BaseOf(resp) + 40
    /\ \A r \in C19_Unrelated(req) : rule_score(r) = BaseOf(resp)

\* fields that make each stability signal available
C20_Supplied ==
    [income_rhythm |-> IncomeBest, savings_cadence |-> SavingsBest,
     device_persistence |-> DeviceBest, expense_elasticity |-> ExpenseBest,
     utility_stability |-> UtilityBest, merchant_loyalty |-> MerchantBest,
     repayment_velocity |-> RepaymentBest, geo_resilience |-> GeoBest]

\* the uncertainty_pct /credit/assess/full reports for a request, in tenths
C20_PctOf(r) == assess_full(r, prob).decision.probability_of_default.uncertainty_pct

\* C20: uncertainty_pct = max(5, 25 - 2.5 * available_signal_count), the count
\* being the number of available stability signals: 25 with none, 5 with all
\* eight, never below 5 or above 25, and never higher when one more signal
\* becomes available.
C20_UncertaintyPct ==
    resp.endpoint = "assess_full" =>
        LET available == AvailableIn(req, {})
            count     == Cardinality(available)
            pct       == resp.decision.probability_of_default.uncertainty_pct
        IN  /\ resp.stability.signals_available = count
            /\ pct = (IF 250 - 25 * count > 50 THEN 250 - 25 * count ELSE 50)
            /\ pct \in 50..250
            /\ count = 0 => pct = 250
            /\ count = 8 => pct = 50
            /\ \A k \in SignalNames \ available :
                  C20_PctOf(C20_Supplied[k] @@ req) <= pct

\* seven signals available: 7.5 percent, and 5 once the eighth is supplied
C20_Witness ==
    /\ resp.endpoint = "assess_full"
    /\ resp.stability.signals_available = 7
    /\ resp.decision.probability_of_default.uncertainty_pct = 75
    /\ \E k \in SignalNames \ AvailableIn(req, {}) :
          C20_PctOf(C20_Supplied[k] @@ req) = 50

-----------------------------------------------------------------------------
(* C21: the reason codes *)

\* the codes whose threshold holds, in the fixed order
C21_Codes(r) ==
    SelectSeq(<<"R10", "R11", "R07", "R12", "R05", "R03">>,
              LAMBDA c :
                  CASE c = "R10" -> r.previous_fraud_flag # 0
                    [] c = "R11" -> r.chargeback_count >= 1
                    [] c = "R07" -> r.location_risk_score >= 700
                    [] c = "R12" -> r.transaction_count_30d >= 100
                                    /\ r.avg_transaction_amount < 50
                    [] c = "R05" -> r.device_change_frequency >= 4
                    [] c = "R03" -> r.account_age_months < 6)

\* C21: every answered decision lists exactly the codes among R10, R11, R07,
\* R12, R05 and R03 whose threshold holds for the applicant, in that order
C21_SixCodesInOrder ==
    Answered => resp.decision.reason_codes = C21_Codes(req)

-----------------------------------------------------------------------------
(* C22: a decision depends on the request and the probability only *)

-----------------------------------------------------------------------------
(* C23: the adjustment of the two layers together *)

\* C23: the fully enhanced rule score of /credit/assess/full is within 250
\* points (25 percent of the scale) of the base rule score
C23_TotalAdjustmentWithin25Percent ==
    resp.endpoint = "assess_full" =>
        Abs(resp.scoring_breakdown.fully_enhanced_rule_score
            - resp.scoring_breakdown.base_rule_score) <= 250

-----------------------------------------------------------------------------
(* C24: the shape of the /credit/assess response *)

\* C24: the response of POST /credit/assess has, at its top level, user_id
\* (the request's), an integer rule_score, ml_high_risk_probability, an
\* integer final_risk_score, risk_band among Low, Moderate and High,
\* model_accuracy_auc and a list reason_codes
C24_FlatAssessResponse ==
    resp.endpoint = "assess" =>
        /\ {"user_id", "rule_score", "ml_high_risk_probability", "final_risk_score",
            "risk_band", "model_accuracy_auc", "reason_codes"} \subseteq DOMAIN resp
        /\ resp.user_id = req.user_id
        /\ resp.rule_score \in Int
        /\ resp.final_risk_score \in Int
        /\ resp.risk_band \in {"Low", "Moderate", "High"}
        /\ resp.reason_codes \in Seq({"R10", "R11", "R07", "R12", "R05", "R03"})

-----------------------------------------------------------------------------
(* C25: the ML score *)

\* C25 as stated: ml_score is p * 1000 rounded to the nearest integer
C25_MlScoreRounded ==
    Answered => MlOf(resp) = Round(prob * 1000, 10000)

\* C25: ml_score is p * 1000 with the fraction dropped: the integer m of
\* [0,1000] with m <= p * 1000 < m + 1
C25_MlScoreTruncated ==
    Answered =>
        /\ MlOf(resp) \in 0..1000
        /\ MlOf(resp) * 10000 <= prob * 1000
        /\ prob * 1000 < (MlOf(resp) + 1) * 10000

\* p = 0.5996 gives 599
C25_Witness ==
    /\ Answered
    /\ prob = 5996
    /\ MlOf(resp) = 599

-----------------------------------------------------------------------------
(* C26: the Savings Cadence score *)

\* min(1, 0.5*min(1, saves/4) + 0.4*min(1, persistence/12) + e) in thousandths,
\* e being the escrow term in 2400ths; absent fields count as 0 and no escrow
C26_Score(r, escrow_term) ==
    LET saves       == IF IsNone(r.micro_saves_per_month) THEN 0
                       ELSE r.micro_saves_per_month[1]
        persistence == IF IsNone(r.savings_persistence_months) THEN 0
                       ELSE r.savings_persistence_months[1]
        escrow      == r.has_escrow_commitment = Some(TRUE)
        freq        == IF saves < 400 THEN 3 * saves ELSE 1200
        persist     == IF persistence < 12 THEN 80 * persistence ELSE 960
        total       == freq + persist + (IF escrow THEN escrow_term ELSE 0)
    IN  Round(1000 * (IF total < 2400 THEN total ELSE 2400), 2400)

\* the savings signal is evaluated: one of its first two fields is supplied
C26_Evaluated ==
    /\ resp.endpoint = "assess_full"
    /\ resp.behavioral_signals.savings_cadence.available

\* C26 as stated: an escrow commitment adds 0.1 * 0.1 + 0.1 = 0.11 before the cap
C26_EscrowAddsEleven ==
    C26_Evaluated => resp.behavioral_signals.savings_cadence.score = C26_Score(req, 264)

\* C26: an escrow commitment adds 0.1 * 1 + 0.1 = 0.2 before the cap
C26_EscrowAddsTwenty ==
    C26_Evaluated => resp.behavioral_signals.savings_cadence.score = C26_Score(req, 480)

\* no saves, no persistence, an escrow commitment: the score is 0.2
C26_Witness ==
    /\ C26_Evaluated
    /\ req.micro_saves_per_month = Some(0)
    /\ req.savings_persistence_months = Some(0)
    /\ req.has_escrow_commitment = Some(TRUE)
    /\ resp.behavioral_signals.savings_cadence.score = 200

-----------------------------------------------------------------------------
(* C27: the uncertainty band of /credit/assess/full *)

\* C27: with points = floor(final_score * uncertainty_pct / 100) the score
\* range is lower = max(0, final - points) and upper = min(1000, final + points)
\* and 0 <= lower <= final_score <= upper <= 1000; the bounds of the
\* probability of default are the estimate minus and plus uncertainty_pct / 2,
\* clamped, and 0 <= lower_bound <= estimate <= upper_bound <= 100.
C27_UncertaintyBand ==
    resp.endpoint = "assess_full" =>
        LET d     == resp.decision
            final == d.final_credit_score
            pd    == d.probability_of_default
            pct   == pd.uncertainty_pct
        IN  /\ \E points \in 0..1000 :
                  /\ 1000 * points <= final * pct
                  /\ final * pct < 1000 * (points + 1)
                  /\ d.score_range.lower = Clamp(final - points, 0, 1000)
                  /\ d.score_range.upper = Clamp(final + points, 0, 1000)
            /\ 0 <= d.score_range.lower
            /\ d.score_range.lower <= final
            /\ final <= d.score_range.upper
            /\ d.score_range.upper <= 1000
            /\ pd.lower_bound = Clamp(pd.estimate - 5 * pct, 0, 10000)
            /\ pd.upper_bound = Clamp(pd.estimate + 5 * pct, 0, 10000)
            /\ 0 <= pd.lower_bound
            /\ pd.lower_bound <= pd.estimate
            /\ pd.estimate <= pd.upper_bound
            /\ pd.upper_bound <= 10000

\* a band cut at both ends: the score range at 1000 and the lower bound of
\* the probability of default at 0, neither estimate being at the end itself
C27_Witness ==
    /\ resp.endpoint = "assess_full"
    /\ resp.decision.final_credit_score < 1000
    /\ resp.decision.score_range.upper = 1000
    /\ resp.decision.score_range.lower < resp.decision.final_credit_score
    /\ resp.decision.probability_of_default.estimate < 10000
    /\ resp.decision.probability_of_default.upper_bound = 10000

-----------------------------------------------------------------------------
(* C28: the breakdown of enhanced_rule_score *)

\* C28 as stated: the reported total_adjustment is the sum of the reported
\* ctc_adjustment and address_adjustment, and the adjusted score is
\* clamp(base_score + total_adjustment, 0, 1000)
C28_TotalIsSumOfParts ==
    resp.endpoint = "assess" =>
        LET s == resp.rule_scoring
        IN  /\ s.total_adjustment = s.ctc_adjustment + s.address_adjustment
            /\ s.final_rule_score = Clamp(s.base_score + s.total_adjustment, 0, 1000)

\* C28: the reported total_adjustment is the sum of the reported ctc_adjustment
\* and address_adjustment clamped to [-120,120], so it is their sum only while
\* the sum is within 120 of zero; the adjusted score is
\* clamp(base_score + total_adjustment, 0, 1000)
C28_TotalIsClampedSumOfParts ==
    resp.endpoint = "assess" =>
        LET s == resp.rule_scoring
        IN  /\ s.total_adjustment
                  = Clamp(s.ctc_adjustment + s.address_adjustment, -120, 120)
            /\ s.final_rule_score = Clamp(s.base_score + s.total_adjustment, 0, 1000)

\* a distrusted network: the parts sum to more than 120, the total is 120 and
\* the adjusted score is 120 above the base score
C28_Witness ==
    /\ resp.endpoint = "assess"
    /\ resp.rule_scoring.ctc_adjustment + resp.rule_scoring.address_adjustment > 120
    /\ resp.rule_scoring.total_adjustment = 120
    /\ resp.rule_scoring.final_rule_score = resp.rule_scoring.base_score + 120

-----------------------------------------------------------------------------
(* C29: an applicant without optional fields *)

\* no optional field is supplied
C29_NoOptional(r) == \A k \in DOMAIN C9_Fields : \A f \in C9_Fields[k] : IsNone(r[f])

\* C29: for an applicant without optional fields every signal is unavailable,
\* every adjustment is 0, signals_available is 0, the network-adjusted and the
\* fully enhanced score both equal rule_score, and /credit/assess,
\* /credit/explain and /credit/assess/full return the same final score, risk
\* band and ML probability.
C29_BaselineEquivalence ==
    (C29_NoOptional(req) /\ resp.endpoint \in {"assess", "explain", "assess_full"}) =>
        LET a    == assess(req, prob)
            e    == explain(req, prob)
            f    == assess_full(req, prob)
            base == rule_score(req)
        IN  /\ resp \in {a, e, f}
            /\ \A k \in DOMAIN C9_Fields : ~EvaluatorResults(req)[k].available
            /\ \A k \in DOMAIN C9_Fields : EvaluatorResults(req)[k].impact_adjustment = 0
            /\ \A k \in SignalNames : ~f.behavioral_signals[k].available
            /\ ~a.network_trust.available /\ ~a.address_stability.available
            /\ ~f.network_trust.ctc_available /\ ~f.network_trust.address_available
            /\ a.rule_scoring.ctc_adjustment = 0
            /\ a.rule_scoring.address_adjustment = 0
            /\ a.rule_scoring.total_adjustment = 0
            /\ f.network_trust.ctc_adjustment = 0
            /\ f.network_trust.address_adjustment = 0
            /\ f.network_trust.total_network_adjustment = 0
            /\ f.stability.adjustment = 0
            /\ f.stability.signals_available = 0
            /\ a.rule_scoring.base_score = base
            /\ a.rule_scoring.final_rule_score = base
            /\ e.decision.rule_score = base
            /\ f.scoring_breakdown.base_rule_score = base
            /\ f.scoring_breakdown.network_adjusted_score = base
            /\ f.scoring_breakdown.fully_enhanced_rule_score = base
            /\ FinalOf(a) = FinalOf(e) /\ FinalOf(e) = FinalOf(f)
            /\ FinalOf(resp) = FinalOf(a)
            /\ a.decision.risk_band = e.decision.risk_band
            /\ e.decision.risk_band = f.decision.risk_band
            /\ resp.decision.risk_band = a.decision.risk_band
            /\ a.ml_scoring.high_risk_probability = e.decision.ml_probability
            /\ e.decision.ml_probability = f.decision.probability_of_default.estimate

\* an applicant without optional fields answered by /credit/assess/full: rule
\* score 500 at every stage, fused with an ML score of 600 to 560, Moderate
C29_Witness ==
    /\ C29_NoOptional(req)
    /\ resp.endpoint = "assess_full"
    /\ resp.scoring_breakdown.base_rule_score = 500
    /\ resp.scoring_breakdown.fully_enhanced_rule_score = 500
    /\ resp.stability.signals_available = 0
    /\ resp.decision.final_credit_score = 560
    /\ resp.decision.risk_band = "Moderate"
    /\ FinalOf(assess(req, prob)) = 560
    /\ FinalOf(explain(req, prob)) = 560

-----------------------------------------------------------------------------
(* C30: process-next keeps one assessment per sample applicant *)

\* the sample applicants without a row
C30_Pending == {i \in DOMAIN samples : \A k \in DOMAIN table : table[k].user_id # samples[i].user_id}

\* the table holds at most one row per user_id and no more rows than samples
C30_OneRowPerApplicant ==
    /\ \A i, j \in DOMAIN table : i # j => table[i].user_id # table[j].user_id
    /\ Len(table) <= Len(samples)

\* a call appends the assessment of the first pending sample applicant, or,
\* when none is pending, deletes a row with the oldest created_at and appends
\* the new assessment of that row's applicant
C30_Step ==
    IF C30_Pending # {}
    THEN \E i \in C30_Pending :
            /\ \A j \in C30_Pending : i <= j
            /\ req' = samples[i]
            /\ Len(table') = Len(table) + 1
            /\ SubSeq(table', 1, Len(table)) = table
            /\ table'[Len(table')].user_id = samples[i].user_id
            /\ table'[Len(table')].final_score = resp'.assessment.decision.final_credit_score
    ELSE \E k \in DOMAIN table :
            /\ \A j \in DOMAIN table : table[k].created_at <= table[j].created_at
            /\ req'.user_id = table[k].user_id
            /\ req' \in {samples[i] : i \in DOMAIN samples}
            /\ Len(table') = Len(table)
            /\ SubSeq(table', 1, Len(table) - 1)
                  = [n \in 1..(Len(table) - 1) |-> IF n < k THEN table[n] ELSE table[n + 1]]
            /\ table'[Len(table')].user_id = table[k].user_id
            /\ table'[Len(table')].created_at = now'
            /\ table'[Len(table')].final_score = resp'.assessment.decision.final_credit_score

\* C30: from an empty table and a non-empty sample list with distinct
\* user_ids, after any sequence of process-next calls the table holds at most
\* one assessment per user_id and never more rows than sample applicants;
\* each call assesses the first sample applicant without a row and, once
\* every applicant has one, deletes the row with the oldest created_at and
\* re-assesses exactly that applicant.
C30_ProcessNextRotates == [](C30_OneRowPerApplicant) /\ [][C30_Step]_vars

\* three applicants assessed and the first of them re-assessed: its row is
\* now the newest, behind the rows of the second and the third
C30_Witness ==
    /\ Len(samples) = 3
    /\ Len(table) = 3
    /\ table[1].user_id = samples[2].user_id
    /\ table[2].user_id = samples[3].user_id
    /\ table[3].user_id = samples[1].user_id
    /\ table[3].created_at > table[2].created_at
    /\ resp.endpoint = "process_next" /\ resp.status = 200
    /\ resp.assessment.applicant.user_id = samples[1].user_id

====
